---- MODULE Spec2Model ----
(***************************************************************************)
(* Model of the tuJanalyst trigger pipeline: the TriggerEvent status       *)
(* machine (src/models/trigger.py), the trigger store                      *)
(* (src/repositories/mongo.py) and the PipelineOrchestrator                *)
(* (src/pipeline/orchestrator.py).                                         *)
(*                                                                         *)
(* Text values (transition reasons, exception messages) are sequences of   *)
(* string tokens; an f-string is the concatenation of its parts, so        *)
(* "reason contains message m" is "m is one of the tokens of the reason".  *)
(***************************************************************************)
EXTENDS Integers, Sequences, FiniteSets, TLC

\* ---------------------------------------------------------------- bounds
MaxRuns == 2

MaxOutages == 1

\* -------------------------------------------------------------- universes
Triggers == {"t1", "t2"}

NoTrigger == "none"

\* src/models/trigger.py TriggerStatus
PENDING == "pending"

FILTERED_OUT == "filtered_out"

GATE_PASSED == "gate_passed"

ANALYZING == "analyzing"

ANALYZED == "analyzed"

ASSESSING == "assessing"

ASSESSED == "assessed"

REPORTED == "reported"

ERROR == "error"

TriggerStatus ==
    {PENDING, FILTERED_OUT, GATE_PASSED, ANALYZING, ANALYZED, ASSESSING,
     ASSESSED, REPORTED, ERROR}

\* src/models/trigger.py TriggerSource
TriggerSource == {"nse_rss", "bse_rss", "human"}

\* messages carried by exceptions raised by collaborators
Msgs == {"timeout", "boom"}

\* string form of a collaborator's successful outcome
OK == "ok"

\* message of the exception a failing persistence call raises
StoreDown == "mongo unavailable"

\* message of the AttributeError raised when the gate result has no get()
NoGet == "object has no attribute get"

Contains(reason, token) == \E i \in 1..Len(reason) : reason[i] = token

Last(s) == s[Len(s)]

IsPrefix(s, t) == Len(s) <= Len(t) /\ SubSeq(t, 1, Len(s)) = s

NoGate == [passed |-> FALSE, reason |-> <<>>, method |-> "none", model |-> "none"]

AbsentTrigger ==
    [present |-> FALSE, source |-> "none", has_url |-> FALSE,
     priority |-> "normal", status |-> PENDING, status_history |-> <<>>,
     document_ids |-> <<>>, gate_result |-> NoGate, created_at |-> 0]

\* TriggerEvent(...) with the model's defaults: status pending, empty history
NewTrigger(source, has_url, priority, created) ==
    [present |-> TRUE, source |-> source, has_url |-> has_url,
     priority |-> priority, status |-> PENDING, status_history |-> <<>>,
     document_ids |-> <<>>, gate_result |-> NoGate, created_at |-> created]

\* TriggerEvent.set_status: status, then one appended StatusTransition
set_status(trigger, status, reason) ==
    [trigger EXCEPT !.status = status,
                    !.status_history =
                        Append(@, [status |-> status, reason |-> reason])]

\* a plausible slip: $set without the $push
update_status_NoPush(st, id, status, reason) ==
    IF st[id].present THEN [st EXCEPT ![id].status = status] ELSE st

\* a plausible slip: the history is $set to the new entry instead of $push-ed
update_status_Overwrite(st, id, status, reason) ==
    IF st[id].present
    THEN [st EXCEPT ![id].status = status,
                    ![id].status_history = <<[status |-> status, reason |-> reason]>>]
    ELSE st

\* a plausible slip: the filter of the update matches no document
update_status_NoMatch(st, id, status, reason) == st

\* MongoTriggerRepository.update_status: one update_one with $set status and
\* $push status_history; a trigger id that matches no document changes nothing
update_status(st, id, status, reason) ==
    IF st[id].present
    THEN [st EXCEPT ![id].status = status,
                    ![id].status_history =
                        Append(@, [status |-> status, reason |-> reason])]
    ELSE st

\* MongoTriggerRepository.get_pending: status == pending, oldest first, limit
RECURSIVE SortByCreated(_, _)
SortByCreated(st, S) ==
    IF S = {} THEN <<>>
    ELSE LET first == CHOOSE t \in S :
                        \A u \in S : st[t].created_at <= st[u].created_at
         IN <<first>> \o SortByCreated(st, S \ {first})

Take(s, n) == SubSeq(s, 1, IF Len(s) < n THEN Len(s) ELSE n)

\* a plausible slip: the cursor is not limited
get_pending_NoLimit(st, limit) ==
    SortByCreated(st, {t \in Triggers : st[t].present /\ st[t].status = PENDING})

get_pending(st, limit) ==
    Take(SortByCreated(st, {t \in Triggers :
                              st[t].present /\ st[t].status = PENDING}), limit)

VARIABLES
    store,      \* trigger collection: trigger id -> persisted TriggerEvent
    reports,    \* report collection: trigger id -> persisted delivery_status
    cfg,        \* which optional collaborators the orchestrator was built with
    env,        \* how each collaborator answers a call
    db,         \* availability of the persistence layer: "up" or "down"
    pc,         \* position inside process_trigger
    cur,        \* trigger id of the running process_trigger
    trig,       \* the in-memory TriggerEvent objects callers hold
    inv,        \* investigation returned by the analyzer
    report,     \* in-memory report returned by the generator
    exc,        \* message of the exception being handled
    raised,     \* which collaborator raised first in this run, and its message
    calls,      \* collaborators invoked in this run, in order
    recorded,   \* statuses recorded by update_status in this run, in order
    result,     \* outcome of the last process_trigger to its caller
    runs,       \* number of process_trigger invocations so far
    outages,    \* number of database outages so far
    batch,      \* state of the running process_pending_triggers
    ingested    \* triggers whose document_ids some run has populated

\* the ingestion poller (src/pipeline/layer1_triggers/rss_poller.py)
VARIABLES
    poller_cfg,               \* constructor arguments of ExchangeRSSPoller
    known_dedup_keys,         \* self._known_dedup_keys
    dedup_cache_seeded_at,    \* self._dedup_cache_seeded_at, NotSeeded for None
    supports_recent_listing,  \* self._supports_recent_listing
    now,                      \* the clock
    collection,               \* documents of the triggers collection, oldest first
    poll_pc,                  \* position inside poll
    created_triggers,         \* created_triggers of the running or last poll
    created,                  \* created of the running _create_new_triggers
    row_no,                   \* rows of the current source already looped over
    last_row,                 \* the row the loop handled last, and what became of it
    failed_sources,           \* sources whose turn of this cycle ended in the except branch
    feed,                     \* what the rows of the configured feeds carry
    announced,                \* per document of the collection: the document_urls of its announcement
    follow,                   \* one announcement, and what the loop did with it so far
    polls                     \* number of poll cycles started

pollerVars ==
    <<poller_cfg, known_dedup_keys, dedup_cache_seeded_at,
      supports_recent_listing, now, collection, poll_pc, created_triggers,
      created, row_no, last_row, failed_sources, feed, announced, follow,
      polls>>

pipelineVars ==
    <<store, reports, cfg, env, db, pc, cur, trig, inv, report, exc, raised,
      calls, recorded, result, runs, outages, batch, ingested>>

VARIABLES
    retry_args,               \* arguments of the calls of the retry helpers
    retry_runs                \* the running call of each form of the retry helper

VARIABLES
    breaker,                  \* a CircuitBreaker: its configuration and fields
    breaker_clock,            \* what time_fn() returns now
    breaker_calls             \* what the callers of the breaker have seen

retryVars == <<retry_args, retry_runs>>

breakerVars == <<breaker, breaker_clock, breaker_calls>>

VARIABLES
    tool,                     \* the tool that owns the breaker, and its provider
    tool_requests,            \* the HTTP requests of the tool that are awaited
    tool_last                 \* what the last call of the tool did

toolVars == <<tool, tool_requests, tool_last>>

VARIABLES
    sched                     \* the scheduler: its jobs and their instances

schedVars == <<sched>>

VARIABLES
    filter_call               \* a trigger handed to the watchlist filter, and the answer

filterVars == <<filter_call>>

VARIABLES
    upd_store,                \* the triggers collection the concurrent callers update
    upd_calls                 \* the concurrent invocations of update_status

storeVars == <<upd_store, upd_calls>>

VARIABLES
    gate_call                 \* a call of GateClassifier.classify

gateVars == <<gate_call>>

\* everything but the services
coreVars == <<pipelineVars, pollerVars, retryVars, breakerVars, toolVars>>

\* the state of the services that run beside the retry helpers, the breaker
\* and the tools
serviceVars == <<schedVars, filterVars, storeVars, gateVars>>

utilVars == <<retryVars, breakerVars, toolVars, serviceVars>>

vars == <<pipelineVars, pollerVars, utilVars>>

\* ------------------------------------------------------------ small values
NoInvestigation == [present |-> FALSE, is_significant |-> FALSE, significance |-> "unknown"]

NoReport == [present |-> FALSE, delivery_status |-> "none", delivered_via |-> <<>>]

NoRaise == [who |-> "none", msg |-> "none"]

IdleBatch ==
    [active |-> FALSE, pending |-> <<>>, processed |-> 0, outcome |-> "none",
     fetched |-> <<>>, limit |-> 0]

\* the TriggerEvent object built from a persisted document (model_validate)
ObjOf(rec) ==
    [document_ids |-> rec.document_ids, gate_result |-> rec.gate_result]

\* a call to the persistence layer succeeds while the database is reachable
\* and raises while it is not
StoreOk == db = "up"

\* ====================================================== ingestion poller
\* ------------------------------------------------------------- URL values
\* a URL as urlparse splits it: scheme (urlparse lower-cases it), netloc,
\* path, the query as a sequence of <<key, value>> pairs, and the fragment
Url(scheme, netloc, path, query, fragment) ==
    [scheme |-> scheme, netloc |-> netloc, path |-> path, query |-> query,
     fragment |-> fragment]

\* the empty string
NoUrl == Url("", "", "", <<>>, "")

\* str.lower() on the strings the model uses
Lower(x) ==
    CASE x = "NSE.com" -> "nse.com"
      [] x = "Ref" -> "ref"
      [] x = "UTM_Source" -> "utm_source"
      [] OTHER -> x

\* _TRACKING_QUERY_PREFIXES, on the keys the model uses
HasTrackingPrefix(key) == key \in {"utm_source", "utm_campaign"}

\* _TRACKING_QUERY_KEYS
TRACKING_QUERY_KEYS ==
    {"fbclid", "gclid", "mc_cid", "mc_eid", "ref", "ref_src", "source"}

\* the order of Python's string comparison on the strings the model uses
StrOrder == <<"1", "2", "Ref", "UTM_Source", "id", "page", "ref", "rss",
              "utm_source", "x">>

StrPos(x) == CHOOSE i \in 1..Len(StrOrder) : StrOrder[i] = x

\* tuple comparison of two (key, value) pairs: p <= q
PairLeq(p, q) ==
    \/ StrPos(p[1]) < StrPos(q[1])
    \/ p[1] = q[1] /\ StrPos(p[2]) <= StrPos(q[2])

\* list.sort() of the query pairs
RECURSIVE SortPairs(_)
SortPairs(pairs) ==
    IF pairs = <<>> THEN <<>>
    ELSE LET i == CHOOSE k \in 1..Len(pairs) :
                     \A j \in 1..Len(pairs) :
                        /\ PairLeq(pairs[k], pairs[j])
                        /\ (pairs[j] = pairs[k] => k <= j)
             rest == [j \in 1..(Len(pairs) - 1) |->
                         IF j < i THEN pairs[j] ELSE pairs[j + 1]]
         IN <<pairs[i]>> \o SortPairs(rest)

\* the loop of _canonicalize_url over parse_qsl(query, keep_blank_values=False)
RECURSIVE CleanQueryPairs(_)
CleanQueryPairs(pairs) ==
    IF pairs = <<>> THEN <<>>
    ELSE LET key == Head(pairs)[1]
             lowered == Lower(key)
         IN IF Head(pairs)[2] = ""
               \/ HasTrackingPrefix(lowered)
               \/ lowered \in TRACKING_QUERY_KEYS
            THEN CleanQueryPairs(Tail(pairs))
            ELSE <<Head(pairs)>> \o CleanQueryPairs(Tail(pairs))

\* path.rstrip("/") on the paths the model uses
StripSlash(path) ==
    CASE path = "/a/" -> "/a"
      [] path = "/b/" -> "/b"
      [] OTHER -> path

\* a plausible slip: tracking parameters are kept
canonicalize_url_KeepTracking(value) ==
    IF value = NoUrl THEN NoUrl
    ELSE IF value.scheme \notin {"http", "https"} THEN value
    ELSE Url(Lower(value.scheme), Lower(value.netloc),
             LET path == IF value.path = "" THEN "/" ELSE value.path
             IN IF path # "/" THEN StripSlash(path) ELSE path,
             SortPairs(value.query), "")

\* ExchangeRSSPoller._canonicalize_url
canonicalize_url(value) ==
    IF value = NoUrl THEN NoUrl
    ELSE IF value.scheme \notin {"http", "https"} THEN value
    ELSE Url(Lower(value.scheme), Lower(value.netloc),
             LET path == IF value.path = "" THEN "/" ELSE value.path
             IN IF path # "/" THEN StripSlash(path) ELSE path,
             SortPairs(CleanQueryPairs(value.query)), "")

\* ExchangeRSSPoller._base_url_without_query
base_url_without_query(value) ==
    IF value.scheme \notin {"http", "https"} THEN value
    ELSE Url(value.scheme, value.netloc, value.path, <<>>, "")

\* the URLs canonicalisation is exercised on
RawUrls ==
    {Url("https", "nse.com", "/a", <<>>, ""),
     Url("https", "NSE.com", "/a/", <<<<"UTM_Source", "rss">>>>, "top"),
     Url("https", "nse.com", "/a", <<<<"page", "2">>, <<"ref", "x">>, <<"id", "1">>>>, ""),
     Url("https", "nse.com", "/b", <<<<"id", "1">>>>, ""),
     Url("https", "nse.com", "/b", <<>>, ""),
     Url("https", "nse.com", "/a", <<<<"utm_source", "rss">>>>, ""),
     Url("https", "nse.com", "/a", <<<<"page", "2">>, <<"id", "1">>>>, ""),
     Url("https", "nse.com", "/b", <<<<"id", "1">>, <<"Ref", "x">>>>, ""),
     Url("urn", "", "tuj:nse_rss:0f3a", <<>>, "")}

\* canonicalize_url over the URLs the model uses, computed once
Canonical ==
    [u \in RawUrls \cup {canonicalize_url(v) : v \in RawUrls} \cup {NoUrl}
        |-> canonicalize_url(u)]

\* -------------------------------------------------------------- dedup keys
\* a dedup key: a URL, or the "urn:tuj:dedup:<digest>" content fingerprint,
\* which is determined by the source and the normalised content it hashes
UrlKey(u) == [kind |-> "url", url |-> u, source |-> "", content |-> ""]

\* ExchangeRSSPoller._content_dedup_key
content_dedup_key(source, content) ==
    [kind |-> "content", url |-> NoUrl, source |-> source, content |-> content]

\* url and its base, without the empty ones
UrlKeys(u) ==
    IF u = NoUrl THEN {}
    ELSE {UrlKey(u)} \cup
         (IF base_url_without_query(u) = NoUrl THEN {}
          ELSE {UrlKey(base_url_without_query(u))})

RECURSIVE Canonicalized(_)
Canonicalized(urls) ==
    IF urls = <<>> THEN <<>>
    ELSE <<Canonical[Head(urls)]>> \o Canonicalized(Tail(urls))

\* duplicates removed, the order kept
RECURSIVE Deduped(_)
Deduped(urls) ==
    IF urls = <<>> THEN <<>>
    ELSE LET front == Deduped(SubSeq(urls, 1, Len(urls) - 1))
             last == urls[Len(urls)]
         IN IF \E i \in 1..Len(front) : front[i] = last THEN front
            ELSE Append(front, last)

\* ExchangeRSSPoller._extract_document_urls: the row's link (none on a row
\* whose URL is the synthetic urn) and the entries of its attachments list,
\* canonicalized and deduplicated
extract_document_urls(row) ==
    Deduped(Canonicalized((IF row.url.scheme = "urn" THEN <<>> ELSE <<row.url>>)
                             \o row.attachments))

\* a plausible slip: every announcement is given the source of the NSE feed
normalize_row_NseSource(source, row) ==
    [source |-> "nse_rss",
     source_url |-> Canonical[row.url],
     content |-> row.content,
     document_urls |-> extract_document_urls(row)]

\* ExchangeRSSPoller._normalize_row on a feed row with the given link,
\* content and attachments list
normalize_row(source, row) ==
    [source |-> source,
     source_url |-> Canonical[row.url],
     content |-> row.content,
     document_urls |-> extract_document_urls(row)]

\* ExchangeRSSPoller._announcement_dedup_keys
announcement_dedup_keys(announcement) ==
    UrlKeys(announcement.source_url)
      \cup UNION {UrlKeys(announcement.document_urls[i]) :
                     i \in 1..Len(announcement.document_urls)}
      \cup {content_dedup_key(announcement.source, announcement.content)}

\* ExchangeRSSPoller._trigger_dedup_keys
trigger_dedup_keys(trigger) ==
    UrlKeys(Canonical[trigger.source_url])
      \cup {content_dedup_key(trigger.source, trigger.content)}

\* ------------------------------------------------------ triggers collection
\* the document save() writes for a TriggerEvent: what the poller reads back
TriggerDoc(source, source_url, content, created_at, by, priority, status) ==
    [source |-> source, source_url |-> source_url, content |-> content,
     created_at |-> created_at, by |-> by, priority |-> priority,
     status |-> status]

RECURSIVE Reverse(_)
Reverse(s) == IF s = <<>> THEN <<>> ELSE Reverse(Tail(s)) \o <<Head(s)>>

RECURSIVE SelectSince(_, _)
SelectSince(s, since) ==
    IF s = <<>> THEN <<>>
    ELSE IF Head(s).created_at >= since
         THEN <<Head(s)>> \o SelectSince(Tail(s), since)
         ELSE SelectSince(Tail(s), since)

\* MongoTriggerRepository.list_recent(limit, since): created_at >= since,
\* newest first, limited
list_recent(col, limit, since) == Take(SelectSince(Reverse(col), since), limit)

\* MongoTriggerRepository.exists_by_url on a dedup key: the stored source_url
\* equals the key string
exists_by_url(col, key) ==
    /\ key.kind = "url"
    /\ \E i \in 1..Len(col) : col[i].source_url = key.url

\* ------------------------------------------------------------ dedup cache
NotSeeded == -1

RECURSIVE KeysOf(_)
KeysOf(recent) ==
    IF recent = <<>> THEN {}
    ELSE trigger_dedup_keys(Head(recent)) \cup KeysOf(Tail(recent))

\* ExchangeRSSPoller._refresh_dedup_cache_if_needed: the cache after the call
RefreshedCache ==
    IF ~supports_recent_listing
    THEN [known |-> known_dedup_keys, seeded_at |-> dedup_cache_seeded_at,
          supports |-> FALSE]
    ELSE IF /\ dedup_cache_seeded_at # NotSeeded
            /\ now - dedup_cache_seeded_at < poller_cfg.dedup_cache_ttl_seconds
         THEN [known |-> known_dedup_keys, seeded_at |-> dedup_cache_seeded_at,
               supports |-> TRUE]
         ELSE IF poller_cfg.list_recent = "raises"
              THEN [known |-> known_dedup_keys,
                    seeded_at |-> dedup_cache_seeded_at, supports |-> FALSE]
              ELSE [known |-> KeysOf(list_recent(collection,
                                        poller_cfg.dedup_recent_limit,
                                        now - poller_cfg.dedup_lookback_days)),
                    seeded_at |-> now, supports |-> TRUE]

\* a plausible slip: the keys are not added to the cache
remember_dedup_keys_Forget(known, dedup_keys) == known

\* ExchangeRSSPoller._remember_dedup_keys
remember_dedup_keys(known, dedup_keys) == known \cup dedup_keys

\* a plausible slip: only the cache is consulted, never the store
is_duplicate_CacheOnly(known, col, dedup_keys) ==
    [duplicate |-> dedup_keys \cap known # {}, known |-> known]

\* ExchangeRSSPoller._is_duplicate: the answer, and the cache after the call
is_duplicate(known, col, dedup_keys) ==
    IF dedup_keys \cap known # {}
    THEN [duplicate |-> TRUE, known |-> known]
    ELSE IF ~supports_recent_listing
            /\ \E key \in dedup_keys : exists_by_url(col, key)
         THEN [duplicate |-> TRUE, known |-> remember_dedup_keys(known, dedup_keys)]
         ELSE [duplicate |-> FALSE, known |-> known]

\* ----------------------------------------------------------- poller bounds
MaxPolls == 2

MaxTime == 2

MaxDocs == 3

MaxRows == 2

MaxHuman == 1

\* ---------------------------------------------------------- poller inputs
\* normalised content of a feed row (title, content, symbol, published)
Contents == {"c1", "c2"}

\* the source URLs that feed rows and API submissions carry: a plain one,
\* its variant with a tracking parameter, and another document
FeedUrls ==
    {u \in RawUrls : /\ u.scheme = "https" /\ Len(u.query) <= 1 /\ u.fragment = ""
                     /\ (u.path = "/b" => u.query # <<>>)}

\* the source URLs human submissions carry: those of the feeds, and the other
\* document without its query
HumanUrls ==
    {u \in RawUrls : u.scheme = "https" /\ Len(u.query) <= 1 /\ u.fragment = ""}

\* a feed row that carries a link and no attachments list
PlainRow(u, c) == [url |-> u, content |-> c, attachments |-> <<>>]

FeedRows == {PlainRow(u, c) : u \in FeedUrls, c \in Contents}

\* rows of a feed whose announcements can list an attachment besides the link
AttachmentRows ==
    {[url |-> Url("https", "nse.com", "/a", <<>>, ""), content |-> "c1",
      attachments |-> <<Url("https", "nse.com", "/b", <<<<"id", "1">>>>, "")>>],
     PlainRow(Url("https", "nse.com", "/a", <<>>, ""), "c1"),
     PlainRow(Url("https", "nse.com", "/b", <<<<"id", "1">>>>, ""), "c2")}

\* the rows a feed can serve, by what its rows carry
Rows(carried) == IF carried = "link" THEN FeedRows ELSE AttachmentRows

\* normalize_row and the dedup keys of its announcement over the rows the
\* feeds can serve, computed once
Announcements ==
    [source \in {"nse_rss", "bse_rss"}, row \in FeedRows \cup AttachmentRows |->
        LET a == normalize_row(source, row)
        IN [announcement |-> a, dedup_keys |-> announcement_dedup_keys(a)]]

\* no announcement is followed
NotFollowing ==
    [row |-> PlainRow(NoUrl, ""), matched |-> {}, outcome |-> "none", cycle |-> 0]

\* the announcement of the given row is followed from the start
Following(row) == [NotFollowing EXCEPT !.row = row]

\* ExchangeRSSPoller.__init__: the clamped settings, whether a BSE feed is
\* configured, and how the store's list_recent behaves (absent: the
\* repository has no such method)
PollerConfigs ==
    [dedup_cache_ttl_seconds : {1}, dedup_lookback_days : {1},
     dedup_recent_limit : {1, 2}, bse_url : BOOLEAN,
     list_recent : {"ok", "raises", "absent"}]

\* no row handled yet in the current source's turn
NoRow == [url |-> NoUrl, outcome |-> "none"]

\* the link of a feed row and what the loop of _create_new_triggers did with
\* the row
Handled(row, outcome) == [url |-> row.url, outcome |-> outcome]

\* the poller with nothing polled yet
PollerStart ==
    /\ known_dedup_keys = {}
    /\ dedup_cache_seeded_at = NotSeeded
    /\ supports_recent_listing = (poller_cfg.list_recent # "absent")
    /\ now = 0
    /\ collection = <<>>
    /\ poll_pc = "idle"
    /\ created_triggers = <<>>
    /\ created = <<>>
    /\ row_no = 0
    /\ last_row = NoRow
    /\ failed_sources = {}
    /\ announced = <<>>
    /\ polls = 0

\* the poller over feeds whose rows carry a link only
PollerInit ==
    /\ poller_cfg \in PollerConfigs
    /\ feed = "link"
    /\ follow = NotFollowing
    /\ PollerStart

\* a poller that is never run
PollerQuiet ==
    /\ PollerInit
    /\ poller_cfg = [dedup_cache_ttl_seconds |-> 1, dedup_lookback_days |-> 1,
                     dedup_recent_limit |-> 1, bse_url |-> FALSE,
                     list_recent |-> "ok"]

\* ---------------------------------------------------------- poller actions
\* poll, up to the loop over the sources
poll_begin ==
    /\ poll_pc = "idle"
    /\ polls < MaxPolls
    /\ polls' = polls + 1
    /\ known_dedup_keys' = RefreshedCache.known
    /\ dedup_cache_seeded_at' = RefreshedCache.seeded_at
    /\ supports_recent_listing' = RefreshedCache.supports
    /\ created_triggers' = <<>>
    /\ created' = <<>>
    /\ row_no' = 0
    /\ last_row' = NoRow
    /\ failed_sources' = {}
    /\ poll_pc' = "nse_rss"
    /\ UNCHANGED <<poller_cfg, feed, announced, follow, now, collection, pipelineVars, utilVars>>

\* where the loop over the sources goes after a source
AfterSource(source) ==
    IF source = "nse_rss" /\ poller_cfg.bse_url THEN "bse_rss" ELSE "return"

\* a plausible slip: the exception of a source ends the loop over the sources
AfterFailure_LeaveLoop(source) == "return"

\* the except branch of poll is inside the loop: the next source has its turn
AfterFailure(source) == AfterSource(source)

\* _fetch_announcements raises (request, JSON or row failure): the source's
\* turn ends in the except branch of poll
fetch_raises ==
    /\ poll_pc \in {"nse_rss", "bse_rss"}
    /\ row_no = 0
    /\ poll_pc' = AfterFailure(poll_pc)
    /\ failed_sources' = failed_sources \cup {poll_pc}
    /\ UNCHANGED <<poller_cfg, feed, announced, follow, known_dedup_keys, dedup_cache_seeded_at,
                   supports_recent_listing, now, collection, created_triggers,
                   created, row_no, last_row, polls,
                   pipelineVars, utilVars>>

\* one turn of the loop of _create_new_triggers, on the next row of the
\* source's feed: a duplicate is skipped; otherwise the trigger is saved and
\* its keys remembered, or save raises, which ends the source's turn in the
\* except branch of poll with the local list created lost
\* the keys a document brings into the cache: those of its announcement,
\* remembered at its save, and those a refresh recomputes from it
KeysBroughtBy(i) ==
    trigger_dedup_keys(collection[i])
      \cup UNION {UrlKeys(announced[i][n]) : n \in 1..Len(announced[i])}

\* the documents an announcement with the given keys is matched against
Matches(dedup_keys) ==
    {i \in 1..Len(collection) :
        dedup_keys \cap known_dedup_keys \cap KeysBroughtBy(i) # {}}

\* what the loop did with the followed announcement, when the row is that one
Followed(row, dedup_keys, outcome) ==
    IF row # follow.row THEN follow
    ELSE [row |-> row,
          matched |-> IF outcome = "duplicate"
                      THEN follow.matched \cup Matches(dedup_keys)
                      ELSE follow.matched,
          outcome |-> outcome,
          cycle |-> polls]

create_new_triggers ==
    /\ poll_pc \in {"nse_rss", "bse_rss"}
    /\ row_no < MaxRows
    /\ \E row \in Rows(feed) :
          LET a == Announcements[poll_pc, row].announcement
              dedup_keys == Announcements[poll_pc, row].dedup_keys
              d == is_duplicate(known_dedup_keys, collection, dedup_keys)
          IN IF d.duplicate
             THEN /\ known_dedup_keys' = d.known
                  /\ row_no' = row_no + 1
                  /\ last_row' = Handled(row, "duplicate")
                  /\ follow' = Followed(row, dedup_keys, "duplicate")
                  /\ UNCHANGED <<collection, created, created_triggers, poll_pc,
                                 failed_sources, announced>>
             ELSE \/ /\ Len(collection) < MaxDocs
                     /\ collection' = Append(collection,
                                         TriggerDoc(a.source, a.source_url,
                                                    a.content, now, "poller",
                                                    "normal", PENDING))
                     /\ known_dedup_keys' = remember_dedup_keys(d.known, dedup_keys)
                     /\ created' = Append(created, a.source_url)
                     /\ row_no' = row_no + 1
                     /\ last_row' = Handled(row, "saved")
                     /\ announced' = Append(announced, a.document_urls)
                     /\ follow' = Followed(row, dedup_keys, "saved")
                     /\ UNCHANGED <<created_triggers, poll_pc, failed_sources>>
                  \/ /\ known_dedup_keys' = d.known
                     /\ created' = <<>>
                     /\ row_no' = 0
                     /\ last_row' = Handled(row, "save_raised")
                     /\ follow' = Followed(row, dedup_keys, "save_raised")
                     /\ announced' = announced
                     /\ poll_pc' = AfterFailure(poll_pc)
                     /\ failed_sources' = failed_sources \cup {poll_pc}
                     /\ UNCHANGED <<collection, created_triggers>>
    /\ UNCHANGED <<poller_cfg, feed, dedup_cache_seeded_at, supports_recent_listing,
                   now, polls, pipelineVars, utilVars>>

\* the feed has no more rows: _create_new_triggers returns created, which poll
\* adds to created_triggers
source_done ==
    /\ poll_pc \in {"nse_rss", "bse_rss"}
    /\ created_triggers' = created_triggers \o created
    /\ created' = <<>>
    /\ row_no' = 0
    /\ last_row' = NoRow
    /\ poll_pc' = AfterSource(poll_pc)
    /\ UNCHANGED <<poller_cfg, feed, announced, follow, known_dedup_keys, dedup_cache_seeded_at,
                   supports_recent_listing, now, collection, failed_sources,
                   polls, pipelineVars, utilVars>>

\* return created_triggers
poll_return ==
    /\ poll_pc = "return"
    /\ poll_pc' = "idle"
    /\ last_row' = NoRow
    /\ failed_sources' = {}
    /\ UNCHANGED <<poller_cfg, feed, announced, follow, known_dedup_keys, dedup_cache_seeded_at,
                   supports_recent_listing, now, collection, created_triggers,
                   created, row_no, polls, pipelineVars, utilVars>>

\* time passes between poll cycles (the clock's grain is coarser than a cycle)
tick ==
    /\ poll_pc = "idle"
    /\ now < MaxTime
    /\ now' = now + 1
    /\ UNCHANGED <<poller_cfg, feed, announced, follow, known_dedup_keys, dedup_cache_seeded_at,
                   supports_recent_listing, collection, poll_pc,
                   created_triggers, created, row_no, last_row, polls,
                   failed_sources, pipelineVars, utilVars>>

\* POST /human as the poller's collection sees it: a human trigger saved with
\* the source_url of the payload as it came
save_human_trigger ==
    /\ Len(collection) < MaxDocs
    /\ Cardinality({i \in 1..Len(collection) : collection[i].by = "api"}) < MaxHuman
    /\ \E u \in HumanUrls :
          collection' = Append(collection,
                               TriggerDoc("human", u, "c1", now, "api", "high",
                                          GATE_PASSED))
    /\ announced' = Append(announced, <<>>)
    /\ UNCHANGED <<poller_cfg, feed, follow, known_dedup_keys, dedup_cache_seeded_at,
                   supports_recent_listing, now, poll_pc, created_triggers,
                   created, row_no, last_row, polls,
                   failed_sources, pipelineVars, utilVars>>

\* ========================================================== retry helpers
MaxAttempts == 3

MaxBaseDelay == 2

\* attempts: int = 3, the default of the three helpers
DefaultAttempts == 3

\* the three forms of the helper
Forms == {"retry_sync", "retry_async", "retry_in_thread"}

\* what one invocation of the operation can end with: a value, a timeout
\* (two of each, to tell the first from the last) or a ValueError
Values == {"value_a", "value_b"}

Transient == {"TimeoutError_a", "TimeoutError_b"}

Outcomes == Values \cup Transient \cup {"ValueError"}

\* a plausible slip: every exception is retried
should_retry_Always(error) == TRUE

\* should_retry, is_transient_error by default: a TimeoutError is transient, a
\* ValueError("bad input") is not
should_retry(error) == error \in Transient

\* a plausible slip: the delay does not grow
backoff_Constant(base_delay_seconds, attempt) == base_delay_seconds

\* base_delay_seconds * (2 ** (attempt - 1))
backoff(base_delay_seconds, attempt) == base_delay_seconds * 2 ^ (attempt - 1)

NoResult == [kind |-> "none", what |-> "none"]

Returned(value) == [kind |-> "returned", what |-> value]

Raised(error) == [kind |-> "raised", what |-> error]

\* a call of a helper before its first statement
NewRun == [attempt |-> 1, calls |-> <<>>, waits |-> <<>>, result |-> NoResult]

\* the arguments of the calls: attempts, base_delay_seconds, and the operation
\* as the outcomes of its successive invocations
RetryArgs ==
    [attempts : 0..MaxAttempts, base_delay_seconds : 0..MaxBaseDelay,
     outcomes : [1..MaxAttempts -> Outcomes]]

RetryInit ==
    /\ retry_args \in RetryArgs
    /\ retry_runs = [f \in Forms |-> NewRun]

\* no helper is called
RetryQuiet ==
    /\ retry_args = [attempts |-> 0, base_delay_seconds |-> 0,
                     outcomes |-> [i \in 1..MaxAttempts |-> "value_a"]]
    /\ retry_runs = [f \in Forms |-> NewRun]


\* retry_sync, from the entry or the top of the loop to the next top of the
\* loop or to the end: operation() runs in the caller, time.sleep blocks it
retry_sync_turn(run, kwargs, outcomes) ==
    IF kwargs.attempts <= 0 THEN [run EXCEPT !.result = Raised("ValueError_attempts")]
    ELSE LET outcome == outcomes[Len(run.calls) + 1]
             called == [run EXCEPT !.calls = Append(@, "caller")]
         IN IF outcome \in Values
            THEN [called EXCEPT !.result = Returned(outcome)]
            ELSE IF run.attempt >= kwargs.attempts \/ ~should_retry(outcome)
                 THEN [called EXCEPT !.result = Raised(outcome)]
                 ELSE [called EXCEPT
                         !.waits = Append(@, [seconds |-> backoff(kwargs.base_delay_seconds,
                                                                  run.attempt),
                                              blocking |-> TRUE]),
                         !.attempt = @ + 1]

\* retry_async, likewise: await operation() runs where the operation says,
\* await asyncio.sleep suspends the caller without blocking the loop
retry_async_turn(run, kwargs, outcomes, where) ==
    IF kwargs.attempts <= 0 THEN [run EXCEPT !.result = Raised("ValueError_attempts")]
    ELSE LET outcome == outcomes[Len(run.calls) + 1]
             called == [run EXCEPT !.calls = Append(@, where)]
         IN IF outcome \in Values
            THEN [called EXCEPT !.result = Returned(outcome)]
            ELSE IF run.attempt >= kwargs.attempts \/ ~should_retry(outcome)
                 THEN [called EXCEPT !.result = Raised(outcome)]
                 ELSE [called EXCEPT
                         !.waits = Append(@, [seconds |-> backoff(kwargs.base_delay_seconds,
                                                                  run.attempt),
                                              blocking |-> FALSE]),
                         !.attempt = @ + 1]

\* a plausible slip: attempts is not handed on, so the default applies
retry_in_thread_kwargs_NoAttempts(args) ==
    [attempts |-> DefaultAttempts, base_delay_seconds |-> args.base_delay_seconds]

\* the keyword arguments retry_in_thread hands to retry_async
retry_in_thread_kwargs(args) ==
    [attempts |-> args.attempts, base_delay_seconds |-> args.base_delay_seconds]

retry_sync ==
    /\ retry_runs["retry_sync"].result = NoResult
    /\ retry_runs' = [retry_runs EXCEPT !["retry_sync"] =
                         retry_sync_turn(@, retry_args, retry_args.outcomes)]
    /\ UNCHANGED <<retry_args, pipelineVars, pollerVars, breakerVars, toolVars, serviceVars>>

retry_async ==
    /\ retry_runs["retry_async"].result = NoResult
    /\ retry_runs' = [retry_runs EXCEPT !["retry_async"] =
                         retry_async_turn(@, retry_args, retry_args.outcomes, "caller")]
    /\ UNCHANGED <<retry_args, pipelineVars, pollerVars, breakerVars, toolVars, serviceVars>>

\* retry_in_thread: retry_async over lambda: asyncio.to_thread(operation),
\* which runs the operation in a worker thread and hands on its value or its
\* exception
retry_in_thread ==
    /\ retry_runs["retry_in_thread"].result = NoResult
    /\ retry_runs' = [retry_runs EXCEPT !["retry_in_thread"] =
                         retry_async_turn(@, retry_in_thread_kwargs(retry_args),
                                          retry_args.outcomes, "worker")]
    /\ UNCHANGED <<retry_args, pipelineVars, pollerVars, breakerVars, toolVars, serviceVars>>

\* ------------------------------------------------------- circuit breaker
MaxThreshold == 3

MaxRecovery == 2

MaxClock == 6

MaxFailures == 4

MaxSinceSuccess == 6

\* self._opened_until: float | None
NoTime == [some |-> FALSE, value |-> 0]

Time(t) == [some |-> TRUE, value |-> t]

\* CircuitBreaker.__init__, which raises ValueError unless both arguments are
\* positive
CircuitBreaker(failure_threshold, recovery_seconds) ==
    [failure_threshold |-> failure_threshold,
     recovery_seconds |-> recovery_seconds,
     consecutive_failures |-> 0,
     opened_until |-> NoTime]

\* what the callers have seen: the record_failure calls in a row since the
\* construction, the last record_success or the last recovery, the time of
\* the last record_failure, the answer of is_open when it was the last call,
\* whether an is_open has answered True since the last record_success,
\* whether record_success has been called, the record_failure calls since the
\* last record_success, and what closed the breaker last
NoCalls ==
    [failures |-> 0, last_failure_at |-> NoTime, answer |-> "none",
     was_open |-> FALSE, succeeded |-> FALSE, since_success |-> 0,
     closed_by |-> "none"]

BreakerInit ==
    /\ breaker \in {CircuitBreaker(t, r) : t \in 1..MaxThreshold, r \in 1..MaxRecovery}
    /\ breaker_clock = 0
    /\ breaker_calls = NoCalls

\* no breaker is used
BreakerQuiet ==
    /\ breaker = CircuitBreaker(1, 1)
    /\ breaker_clock = 0
    /\ breaker_calls = NoCalls


\* a plausible slip: the breaker stays open at the open-until time itself
recovered_After(clock, opened_until) == clock > opened_until

\* now = self._time_fn(); if now >= opened_until
recovered(clock, opened_until) == clock >= opened_until

\* is_open, its answer: opened_until is not None and now < opened_until
IsOpen(b, clock) ==
    /\ b.opened_until.some
    /\ ~recovered(clock, b.opened_until.value)

\* a plausible slip: the recovery forgets the stored time and keeps the count
Recover_KeepCount(b) == [b EXCEPT !.opened_until = NoTime]

\* is_open at or after the stored time: self._opened_until = None;
\* self._consecutive_failures = 0
Recover(b) == [b EXCEPT !.opened_until = NoTime, !.consecutive_failures = 0]

\* is_open, the fields it leaves
AfterIsOpen(b, clock) ==
    IF b.opened_until.some /\ recovered(clock, b.opened_until.value)
    THEN Recover(b)
    ELSE b

\* a plausible slip: record_success forgets the count and keeps the stored time
RecordSuccess_KeepOpen(b) == [b EXCEPT !.consecutive_failures = 0]

\* record_success, the fields it leaves
RecordSuccess(b) == [b EXCEPT !.consecutive_failures = 0, !.opened_until = NoTime]

\* record_failure, the fields it leaves
RecordFailure(b, clock) ==
    LET counted == b.consecutive_failures + 1
    IN [b EXCEPT !.consecutive_failures = counted,
                 !.opened_until = IF counted >= b.failure_threshold
                                  THEN Time(clock + b.recovery_seconds)
                                  ELSE @]

\* CircuitBreaker.is_open
is_open ==
    /\ breaker' = AfterIsOpen(breaker, breaker_clock)
    /\ breaker_calls' =
           IF IsOpen(breaker, breaker_clock)
           THEN [breaker_calls EXCEPT !.answer = "open", !.was_open = TRUE]
           ELSE IF breaker.opened_until.some
                THEN [breaker_calls EXCEPT !.answer = "closed", !.failures = 0,
                                           !.closed_by = "recovery"]
                ELSE [breaker_calls EXCEPT !.answer = "closed"]
    /\ UNCHANGED <<breaker_clock, retryVars, pipelineVars, pollerVars, toolVars, serviceVars>>

\* CircuitBreaker.record_success
record_success ==
    /\ breaker' = RecordSuccess(breaker)
    /\ breaker_calls' = [breaker_calls EXCEPT
                           !.failures = 0, !.was_open = FALSE, !.answer = "none",
                           !.succeeded = TRUE, !.since_success = 0,
                           !.closed_by = IF breaker.opened_until.some
                                         THEN "record_success" ELSE @]
    /\ UNCHANGED <<breaker_clock, retryVars, pipelineVars, pollerVars, toolVars, serviceVars>>

\* CircuitBreaker.record_failure
record_failure ==
    /\ breaker.consecutive_failures < MaxFailures
    /\ breaker_calls.since_success < MaxSinceSuccess
    /\ breaker' = RecordFailure(breaker, breaker_clock)
    /\ breaker_calls' = [breaker_calls EXCEPT !.failures = @ + 1,
                                              !.last_failure_at = Time(breaker_clock),
                                              !.answer = "none",
                                              !.since_success = @ + 1]
    /\ UNCHANGED <<breaker_clock, retryVars, pipelineVars, pollerVars, toolVars, serviceVars>>

\* time_fn() grows between the calls
time_passes ==
    /\ breaker_clock < MaxClock
    /\ breaker_clock' = breaker_clock + 1
    /\ UNCHANGED <<breaker, breaker_calls, retryVars, pipelineVars, pollerVars, toolVars,
                   serviceVars>>

\* ------------------------------------------------------- protected tools
MaxInFlight == 2

\* MarketDataTool, and WebSearchTool with a provider it supports or not
Tools ==
    {[name |-> "market_data", provider |-> "yfinance"],
     [name |-> "web_search", provider |-> "brave"],
     [name |-> "web_search", provider |-> "tavily"],
     [name |-> "web_search", provider |-> "other"]}

\* symbol.strip().upper() and query.strip() of the arguments
Stripped(text) == IF text \in {"", " "} THEN "" ELSE text

Symbols == {" ", "INFY"}

Queries == {"", "infy results"}

\* what a call of a tool did: whether it found the breaker open, whether it
\* made the protected call (built a ticker, issued an HTTP request), what it
\* recorded on the breaker and what it returned
Did(found_open, attempted, noted, returned) ==
    [found_open |-> found_open, attempted |-> attempted, recorded |-> noted,
     returned |-> returned]

NoToolCall == Did(FALSE, FALSE, "none", "none")

ToolInit ==
    /\ tool \in Tools
    /\ tool_requests = 0
    /\ tool_last = NoToolCall

\* no tool is used
ToolQuiet ==
    /\ tool = [name |-> "market_data", provider |-> "yfinance"]
    /\ tool_requests = 0
    /\ tool_last = NoToolCall


\* a plausible slip: the tool does not consult its breaker
circuit_open_Unchecked(b, clock) == FALSE

\* if self._circuit_breaker.is_open()
circuit_open(b, clock) == IsOpen(b, clock)

\* MarketDataTool.get_snapshot; the ticker gives a price, gives none, or
\* building or reading it raises
GetSnapshot(symbol, outcome) ==
    /\ tool.name = "market_data"
    /\ LET checked == AfterIsOpen(breaker, breaker_clock)
       IN IF circuit_open(breaker, breaker_clock)
          THEN /\ breaker' = checked
               /\ tool_last' = Did(IsOpen(breaker, breaker_clock), FALSE, "none",
                                   "market_data_circuit_open")
          ELSE IF Stripped(symbol) = ""
          THEN /\ breaker' = checked
               /\ tool_last' = Did(IsOpen(breaker, breaker_clock), FALSE, "none",
                                   "yfinance_unavailable")
          ELSE CASE outcome = "price" ->
                      /\ breaker' = RecordSuccess(checked)
                      /\ tool_last' = Did(IsOpen(breaker, breaker_clock), TRUE,
                                          "success", "yfinance")
                 [] outcome = "no_price" ->
                      /\ breaker' = checked
                      /\ tool_last' = Did(IsOpen(breaker, breaker_clock), TRUE,
                                          "none", "yfinance_unavailable")
                 [] outcome = "raises" ->
                      /\ checked.consecutive_failures < MaxFailures
                      /\ breaker' = RecordFailure(checked, breaker_clock)
                      /\ tool_last' = Did(IsOpen(breaker, breaker_clock), TRUE,
                                          "failure", "error")
    /\ UNCHANGED <<tool, tool_requests, breaker_clock, breaker_calls, retryVars,
                   pipelineVars, pollerVars, serviceVars>>

get_snapshot ==
    \E symbol \in Symbols, outcome \in {"price", "no_price", "raises"} :
        GetSnapshot(symbol, outcome)

\* WebSearchTool.search up to its await: a blank query, an open breaker and
\* an unsupported provider return []; otherwise the request is issued
Search(query) ==
    /\ tool.name = "web_search"
    /\ IF Stripped(query) = ""
       THEN /\ tool_last' = Did(IsOpen(breaker, breaker_clock), FALSE, "none", "empty")
            /\ UNCHANGED <<breaker, tool_requests>>
       ELSE IF circuit_open(breaker, breaker_clock)
       THEN /\ breaker' = AfterIsOpen(breaker, breaker_clock)
            /\ tool_last' = Did(IsOpen(breaker, breaker_clock), FALSE, "none", "empty")
            /\ UNCHANGED tool_requests
       ELSE IF tool.provider \in {"brave", "tavily"}
       THEN /\ tool_requests < MaxInFlight
            /\ breaker' = AfterIsOpen(breaker, breaker_clock)
            /\ tool_requests' = tool_requests + 1
            /\ tool_last' = Did(IsOpen(breaker, breaker_clock), TRUE, "none", "awaiting")
       ELSE /\ breaker' = AfterIsOpen(breaker, breaker_clock)
            /\ tool_last' = Did(IsOpen(breaker, breaker_clock), FALSE, "none", "empty")
            /\ UNCHANGED tool_requests
    /\ UNCHANGED <<tool, breaker_clock, breaker_calls, retryVars, pipelineVars,
                   pollerVars, serviceVars>>

search ==
    \E query \in Queries : Search(query)

\* WebSearchTool.search from its await on: the response gives the results,
\* or raise_for_status raises HTTPStatusError, or the request raises
SearchResponse(outcome) ==
    /\ tool_requests > 0
    /\ tool_requests' = tool_requests - 1
    /\ IF outcome = "results"
       THEN /\ breaker' = RecordSuccess(breaker)
            /\ tool_last' = Did(FALSE, FALSE, "success", "results")
       ELSE /\ breaker.consecutive_failures < MaxFailures
            /\ breaker' = RecordFailure(breaker, breaker_clock)
            /\ tool_last' = Did(FALSE, FALSE, "failure", "empty")
    /\ UNCHANGED <<tool, breaker_clock, breaker_calls, retryVars, pipelineVars,
                   pollerVars, serviceVars>>

search_response ==
    \E outcome \in {"results", "HTTPStatusError", "raises"} : SearchResponse(outcome)

\* ------------------------------------------------------------ scheduler
MaxTicks == 3

MaxMissed == 2

\* the two jobs lifespan registers when settings.polling_enabled
Jobs == {"rss_poller", "trigger_processor"}

\* a plausible slip: two instances of a job may run at once
add_job_TwoInstances(id) == [id |-> id, coalesce |-> TRUE, max_instances |-> 2]

\* scheduler.add_job(..., id=id, replace_existing=True, coalesce=True,
\* max_instances=1)
add_job(id) == [id |-> id, coalesce |-> TRUE, max_instances |-> 1]

\* a job nobody has fired yet: the instances that run, the run times that
\* came due, the invocations of the job function that began, the run times
\* that were dropped, and whether two invocations have overlapped
NewJob == [running |-> 0, fired |-> 0, started |-> 0, dropped |-> 0,
           overlapped |-> FALSE]

\* lifespan: the jobs are registered only when polling is enabled
SchedInit ==
    \E polling_enabled \in BOOLEAN :
        sched = [jobs |-> IF polling_enabled THEN {add_job(id) : id \in Jobs} ELSE {},
                 job |-> [id \in Jobs |-> NewJob]]

\* no scheduler is started
SchedQuiet == sched = [jobs |-> {}, job |-> [id \in Jobs |-> NewJob]]

schedFrame == <<coreVars, filterVars, storeVars, gateVars>>

\* the scheduler wakes up and finds run times of a job due: with coalesce
\* they count as one; the job is submitted unless max_instances instances of
\* it are running, in which case the run times are skipped and the next run
\* time is computed from the interval
JobDue(j, missed) ==
    /\ j \in sched.jobs
    /\ sched.job[j.id].fired + missed <= MaxTicks
    /\ LET state == sched.job[j.id]
           run_times == IF j.coalesce THEN 1 ELSE missed
       IN sched' = [sched EXCEPT !.job[j.id] =
              IF state.running >= j.max_instances
              THEN [state EXCEPT !.fired = @ + missed, !.dropped = @ + missed]
              ELSE [state EXCEPT !.fired = @ + missed,
                                 !.running = @ + 1,
                                 !.started = @ + run_times,
                                 !.dropped = @ + (missed - run_times),
                                 !.overlapped = @ \/ state.running > 0]]
    /\ UNCHANGED schedFrame

job_due ==
    \E j \in sched.jobs, missed \in 1..MaxMissed : JobDue(j, missed)

\* an instance of a job ends: the executor counts it off, and starts nothing
JobDone(j) ==
    /\ j \in sched.jobs
    /\ sched.job[j.id].running > 0
    /\ sched' = [sched EXCEPT !.job[j.id].running = @ - 1]
    /\ UNCHANGED schedFrame

job_done ==
    \E j \in sched.jobs : JobDone(j)

\* ------------------------------------------------------ watchlist filter
\* the watchlist: self._symbols (upper case), self._names (names and aliases,
\* lower case), self._sectors (lower case), self._keywords | _global_keywords
WatchedSymbols == {"INOXWIND"}

WatchedNames == {"inox wind"}

WatchedSectors == {"capital goods"}

WatchedKeywords == {"order"}

\* str.strip().upper() and str.strip().lower() on the fields the model uses
StripUpper(text) ==
    CASE text = "inoxwind " -> "INOXWIND"
      [] OTHER -> text

StripLower(text) ==
    CASE text = "Inox Wind Limited" -> "inox wind limited"
      [] text = "Unknown Company Limited" -> "unknown company limited"
      [] text = " Capital Goods" -> "capital goods"
      [] text = "Banking" -> "banking"
      [] OTHER -> text

\* needle in text, for the lower-case texts of the model; a content is the
\* set of the known needles that occur in it
Within(needle, text) ==
    CASE text = "inox wind limited" -> needle = "inox wind"
      [] text = "unknown company limited" -> FALSE
      [] OTHER -> needle = text

Occurs(needle, content) == needle \in content

\* the fields of a TriggerEvent the filter reads; content stands for
\* raw_content and source_feed_title, lower-cased and joined
FilterTriggers ==
    [company_symbol : {"", "inoxwind ", "UNKNOWNCO"},
     company_name : {"", "Inox Wind Limited", "Unknown Company Limited"},
     sector : {"", " Capital Goods", "Banking"},
     content : SUBSET {"inox wind", "inoxwind", "order"}]

\* FilterResult(passed, reason, method)
Answer(passed, method) == [passed |-> passed, method |-> method]

NoAnswer == Answer(FALSE, "none")

\* WatchlistFilter._find_keyword
find_keyword(content) == \E keyword \in WatchedKeywords : Occurs(keyword, content)

\* WatchlistFilter.check
WatchlistCheck(trigger) ==
    LET symbol == StripUpper(trigger.company_symbol)
        company_name == StripLower(trigger.company_name)
        sector == StripLower(trigger.sector)
    IN IF symbol # "" /\ symbol \in WatchedSymbols
       THEN Answer(TRUE, "symbol_match")
       ELSE IF company_name # "" /\ \E name \in WatchedNames : Within(name, company_name)
       THEN Answer(TRUE, "name_match")
       ELSE IF sector # "" /\ sector \in WatchedSectors
       THEN IF find_keyword(trigger.content)
            THEN Answer(TRUE, "keyword_match")
            ELSE Answer(FALSE, "sector_no_keyword")
       ELSE IF \E name \in WatchedNames : Occurs(name, trigger.content)
       THEN Answer(TRUE, "content_scan")
       ELSE IF \E watched \in WatchedSymbols : Occurs(StripLower(watched), trigger.content)
       THEN Answer(TRUE, "content_scan")
       ELSE Answer(FALSE, "no_match")

FilterInit ==
    \E trigger \in FilterTriggers : filter_call = [trigger |-> trigger, result |-> NoAnswer]

\* no trigger is handed to the filter
FilterQuiet ==
    filter_call = [trigger |-> [company_symbol |-> "", company_name |-> "", sector |-> "",
                            content |-> {}],
               result |-> NoAnswer]

\* gate.check(trigger)
check ==
    /\ filter_call.result = NoAnswer
    /\ filter_call' = [filter_call EXCEPT !.result = WatchlistCheck(filter_call.trigger)]
    /\ UNCHANGED <<coreVars, schedVars, storeVars, gateVars>>

\* ------------------------------------------- concurrent status updates
MaxCallers == 3

Callers == 1..MaxCallers

\* the statuses and reasons the concurrent callers pass
UpdateArgs ==
    {[status |-> GATE_PASSED, reason |-> <<"gate">>],
     [status |-> ERROR, reason |-> <<"boom">>]}

IdleCall == [state |-> "idle", status |-> PENDING, reason |-> <<>>, seen |-> <<>>]

\* one stored trigger, pending, with no history
StoreInit ==
    /\ upd_store = [t \in Triggers |->
                       IF t = "t1" THEN NewTrigger("nse_rss", FALSE, "normal", 1)
                       ELSE AbsentTrigger]
    /\ upd_calls = [c \in Callers |-> IdleCall]

\* nobody updates a trigger
StoreQuiet ==
    /\ upd_store = [t \in Triggers |-> AbsentTrigger]
    /\ upd_calls = [c \in Callers |-> IdleCall]

\* a plausible slip: the document is read at the call, changed in the caller
\* and written back whole
update_one_ReadModifyWrite(st, seen, id, status, reason) ==
    [st EXCEPT ![id] = update_status(seen[1], id, status, reason)[id]]

\* collection.update_one(filter, {"$set": ..., "$push": ...}): the server
\* applies both operators to the document as it is then, in one step
update_one(st, seen, id, status, reason) == update_status(st, id, status, reason)

\* update_status is called and awaits the server; seen is the collection as
\* it is at the call, which the code does not read
UpdateCalled(c, args) ==
    /\ upd_calls[c].state = "idle"
    /\ upd_calls' = [upd_calls EXCEPT ![c] =
                        [state |-> "awaiting", status |-> args.status,
                         reason |-> args.reason, seen |-> <<upd_store>>]]
    /\ UNCHANGED <<upd_store, coreVars, schedVars, filterVars, gateVars>>

update_status_called ==
    \E c \in Callers, args \in UpdateArgs : UpdateCalled(c, args)

\* the server applies the update of one of the awaiting calls, which returns
UpdateApplied(c) ==
    /\ upd_calls[c].state = "awaiting"
    /\ upd_store' = update_one(upd_store, upd_calls[c].seen, "t1",
                               upd_calls[c].status, upd_calls[c].reason)
    /\ upd_calls' = [upd_calls EXCEPT ![c].state = "done"]
    /\ UNCHANGED <<coreVars, schedVars, filterVars, gateVars>>

update_status_applied ==
    \E c \in Callers : UpdateApplied(c)

\* --------------------------------------------------------- gate classifier
\* the mapping GateClassifier.classify returns
Classification(answer) ==
    IF answer = "pass"
    THEN [passed |-> TRUE, reason |-> <<"worth investigating">>,
          method |-> "llm_classification", model |-> "haiku"]
    ELSE IF answer = "reject"
         THEN [passed |-> FALSE, reason |-> <<"routine filing">>,
               method |-> "llm_classification", model |-> "haiku"]
         ELSE [passed |-> TRUE,
               reason |-> <<"Gate classifier failure, passed by fail-open policy: ", "timeout">>,
               method |-> "error_fallthrough", model |-> "haiku"]

\* attempts=3
ClassifyAttempts == 3

\* base_delay_seconds=0.2, in tenths of a second
ClassifyBaseDelayTenths == 2

\* the keyword arguments classify hands to retry_sync
ClassifyKwargs ==
    [attempts |-> ClassifyAttempts, base_delay_seconds |-> ClassifyBaseDelayTenths]

\* bool(prediction.is_worth_investigating) of the two predictions
is_worth_investigating(prediction) == prediction = "value_a"

\* a plausible slip: a failure of the module rejects the trigger
OnFailure_FailClosed(error) == "reject"

\* except Exception: passed True, method error_fallthrough
OnFailure(error) == "error_fallthrough"

\* a call of classify before its first statement: the gate module as the
\* outcomes of its successive invocations, the retry_sync call, the result
NewGateCall(outcomes) == [outcomes |-> outcomes, run |-> NewRun, result |-> NoGate]

GateInit ==
    \E outcomes \in [1..ClassifyAttempts -> Outcomes] : gate_call = NewGateCall(outcomes)

\* the classifier is not called
GateQuiet == gate_call = NewGateCall([i \in 1..ClassifyAttempts |-> "value_a"])

ServiceQuiet == SchedQuiet /\ FilterQuiet /\ StoreQuiet /\ GateQuiet

UtilQuiet == RetryQuiet /\ BreakerQuiet /\ ToolQuiet /\ ServiceQuiet

\* classify inside retry_sync: one turn of its loop over the gate module
classify_retry ==
    /\ gate_call.result = NoGate
    /\ gate_call.run.result = NoResult
    /\ gate_call' = [gate_call EXCEPT
                        !.run = retry_sync_turn(@, ClassifyKwargs, gate_call.outcomes)]
    /\ UNCHANGED <<coreVars, schedVars, filterVars, storeVars>>

\* classify after retry_sync: the mapping built from the prediction, or from
\* the exception that retry_sync let through
classify_return ==
    /\ gate_call.result = NoGate
    /\ gate_call.run.result # NoResult
    /\ gate_call' = [gate_call EXCEPT !.result =
           IF gate_call.run.result.kind = "returned"
           THEN Classification(IF is_worth_investigating(gate_call.run.result.what)
                               THEN "pass" ELSE "reject")
           ELSE Classification(OnFailure(gate_call.run.result.what))]
    /\ UNCHANGED <<coreVars, schedVars, filterVars, storeVars>>

\* ------------------------------------------------------------------- Init
\* the collaborator sets main.py builds (each layer needs the one before it),
\* with a report repository reachable through the generator or deliverer, and
\* the same with test doubles that expose no report repository
Configs ==
    {c \in [deep_analyzer : BOOLEAN, decision_assessor : BOOLEAN,
            report_generator : BOOLEAN, report_deliverer : BOOLEAN,
            report_repo : BOOLEAN] :
        /\ c.decision_assessor => c.deep_analyzer
        /\ c.report_generator => c.decision_assessor
        /\ c.report_deliverer = c.report_generator
        /\ c.report_repo => c.report_generator}

\* answers of WatchlistFilter.check: a FilterResult dataclass instance, passing
\* or rejecting, which is no mapping
FilterObjects == {"FilterResult_passed", "FilterResult_rejected"}

\* every way the collaborators can answer. The document fetcher and the text
\* extractor catch their own failures; the filter answers with a mapping or
\* with a FilterResult object; GateClassifier.classify catches every failure
\* of its module and passes the trigger (error_fallthrough)
Behaviours ==
    [doc : {"fetch_none", "fetch_error", "extracted"},
     filter : {"pass", "reject"} \cup FilterObjects,
     classifier : {"pass", "reject", "error_fallthrough"},
     analyzer : {"significant", "not_significant"} \cup Msgs,
     assessor : {OK} \cup Msgs,
     generator : {OK} \cup Msgs,
     deliverer : {"delivered", "delivery_failed", "no_channel"} \cup Msgs]

\* an answer that no call can ask for is fixed, so that each distinguishable
\* environment is one initial state
Relevant(c, e, nonhuman) ==
    LET assessed == c.report_generator /\ e.analyzer = "significant"
        generated == assessed /\ e.assessor = OK
        delivered == generated /\ e.generator = OK
    IN /\ (~nonhuman => e.filter = "pass")
       /\ (e.filter # "pass" => e.classifier = "pass")
       /\ (~c.deep_analyzer => e.analyzer = "significant")
       /\ (~assessed => e.assessor = OK)
       /\ (~generated => e.generator = OK)
       /\ (~delivered => e.deliverer = "delivered")

\* the trigger collection at the start: one pending trigger, and possibly an
\* older pending trigger the poller saved before it
InitCommon ==
    /\ \E s \in {"nse_rss", "human"}, u \in BOOLEAN, older \in BOOLEAN :
          store = [t \in Triggers |->
                      IF t = "t1" THEN NewTrigger(s, u, "normal", 1)
                      ELSE IF older THEN NewTrigger("nse_rss", FALSE, "normal", 0)
                      ELSE AbsentTrigger]
    /\ reports = [t \in Triggers |-> "none"]
    /\ cfg \in Configs
    /\ env \in Behaviours
    /\ Relevant(cfg, env, \E t \in Triggers :
                              store[t].present /\ store[t].source # "human")
    /\ pc = "idle"
    /\ cur = NoTrigger
    /\ trig = [t \in Triggers |-> ObjOf(store[t])]
    /\ inv = NoInvestigation
    /\ report = NoReport
    /\ exc = <<>>
    /\ raised = NoRaise
    /\ calls = <<>>
    /\ recorded = <<>>
    /\ result = "none"
    /\ runs = 0
    /\ outages = 0
    /\ batch = IdleBatch
    /\ ingested = {}
    /\ PollerQuiet
    /\ UtilQuiet

Init == InitCommon /\ db = "up"

\* a pipeline that is never run: no trigger handed to the orchestrator
PipelineQuiet ==
    /\ store = [t \in Triggers |-> AbsentTrigger]
    /\ reports = [t \in Triggers |-> "none"]
    /\ cfg = [deep_analyzer |-> FALSE, decision_assessor |-> FALSE,
              report_generator |-> FALSE, report_deliverer |-> FALSE,
              report_repo |-> FALSE]
    /\ env = [doc |-> "fetch_none", filter |-> "pass", classifier |-> "pass",
              analyzer |-> "significant", assessor |-> OK, generator |-> OK,
              deliverer |-> "delivered"]
    /\ db = "up"
    /\ pc = "idle"
    /\ cur = NoTrigger
    /\ trig = [t \in Triggers |-> ObjOf(store[t])]
    /\ inv = NoInvestigation
    /\ report = NoReport
    /\ exc = <<>>
    /\ raised = NoRaise
    /\ calls = <<>>
    /\ recorded = <<>>
    /\ result = "none"
    /\ runs = 0
    /\ outages = 0
    /\ batch = IdleBatch
    /\ ingested = {}

InitPoller == PipelineQuiet /\ PollerInit /\ UtilQuiet

InitRetry == PipelineQuiet /\ PollerQuiet /\ RetryInit /\ BreakerQuiet /\ ToolQuiet /\ ServiceQuiet

InitBreaker == PipelineQuiet /\ PollerQuiet /\ RetryQuiet /\ BreakerInit /\ ToolQuiet /\ ServiceQuiet

InitTools == PipelineQuiet /\ PollerQuiet /\ RetryQuiet /\ BreakerInit /\ ToolInit /\ ServiceQuiet

\* the retry helpers, the breaker and the tools are not used
CoreQuiet ==
    PipelineQuiet /\ PollerQuiet /\ RetryQuiet /\ BreakerQuiet /\ ToolQuiet

InitScheduler == CoreQuiet /\ SchedInit /\ FilterQuiet /\ StoreQuiet /\ GateQuiet

InitFilter == CoreQuiet /\ SchedQuiet /\ FilterInit /\ StoreQuiet /\ GateQuiet

InitStore == CoreQuiet /\ SchedQuiet /\ FilterQuiet /\ StoreInit /\ GateQuiet

InitGate == CoreQuiet /\ SchedQuiet /\ FilterQuiet /\ StoreQuiet /\ GateInit

\* ------------------------------------------------- control-flow shorthands
\* process_trigger returns res to its caller; inside a batch the loop of
\* process_pending_triggers counts it, and an exception ends the batch call
Return(res) ==
    /\ pc' = "idle"
    /\ result' = res
    /\ batch' = IF ~batch.active THEN batch
                ELSE IF res = "propagated"
                     THEN [batch EXCEPT !.active = FALSE, !.pending = <<>>,
                                        !.outcome = "propagated"]
                     ELSE [batch EXCEPT !.processed = @ + 1]

Goto(p) == pc' = p /\ result' = result /\ batch' = batch

\* an exception leaves the try body: except Exception as exc (line 83)
Throw(who, m, tokens) ==
    /\ Goto("handler")
    /\ exc' = tokens
    /\ raised' = IF raised.who = "none" THEN [who |-> who, msg |-> m] ELSE raised

NoThrow == exc' = exc /\ raised' = raised

Call(who) == calls' = Append(calls, who)

\* await self.trigger_repo.update_status(trigger.trigger_id, status, reason)
Record(status, reason) ==
    /\ store' = IF StoreOk THEN update_status(store, cur, status, reason) ELSE store
    /\ recorded' = IF StoreOk THEN Append(recorded, status) ELSE recorded

\* what follows an update_status call: next when it returned, the except
\* branch when it raised
AfterRecord(next) ==
    IF StoreOk THEN next /\ NoThrow
    ELSE Throw("trigger_repo", StoreDown, <<StoreDown>>)

\* ----------------------------------------------------------- API: triggers
\* a plausible slip: the trigger is saved without the gate_passed transition
create_human_trigger_Pending(t) ==
    /\ pc = "idle"
    /\ ~batch.active
    /\ StoreOk
    /\ ~store[t].present
    /\ \E u \in BOOLEAN :
          store' = [store EXCEPT ![t] = NewTrigger("human", u, "high", 2)]
    /\ trig' = [trig EXCEPT ![t] = ObjOf(store'[t])]
    /\ UNCHANGED <<pollerVars, utilVars, ingested, reports, cfg, env, db, pc, cur, inv, report, exc, raised,
                   calls, recorded, result, runs, outages, batch>>

\* POST /human: a high-priority trigger stored as gate_passed. The handler
\* touches only the new record, which no running process_trigger reads, so it
\* is taken between runs
create_human_trigger(t) ==
    /\ pc = "idle"
    /\ ~batch.active
    /\ StoreOk
    /\ ~store[t].present
    /\ \E u \in BOOLEAN :
          store' = [store EXCEPT ![t] =
                       set_status(NewTrigger("human", u, "high", 2), GATE_PASSED,
                                  <<"Human trigger bypasses Layer 2 gate">>)]
    /\ trig' = [trig EXCEPT ![t] = ObjOf(store'[t])]
    /\ UNCHANGED <<pollerVars, utilVars, ingested, reports, cfg, env, db, pc, cur, inv, report, exc, raised,
                   calls, recorded, result, runs, outages, batch>>

\* ------------------------------------------------------- process_trigger
Begin(t, fresh) ==
    /\ pc' = "documents"
    /\ cur' = t
    /\ trig' = IF fresh THEN [trig EXCEPT ![t] = ObjOf(store[t])] ELSE trig
    /\ inv' = NoInvestigation
    /\ report' = NoReport
    /\ exc' = <<>>
    /\ raised' = NoRaise
    /\ calls' = <<>>
    /\ recorded' = <<>>
    /\ result' = "running"
    /\ runs' = runs + 1

\* a caller hands a stored trigger to process_trigger: the object it already
\* holds, or one read again from the store
process_trigger(t) ==
    /\ pc = "idle"
    /\ ~batch.active
    /\ store[t].present
    /\ runs < MaxRuns
    /\ \E fresh \in BOOLEAN : Begin(t, fresh)
    /\ UNCHANGED <<pollerVars, utilVars, ingested, store, reports, cfg, env, db, batch, outages>>

\* _process_documents. fetch opens with an unguarded doc_repo.save, so it
\* raises while the database is down
process_documents ==
    /\ pc = "documents"
    /\ IF ~store[cur].has_url \/ trig[cur].document_ids # <<>>
       THEN /\ Goto("gate")
            /\ NoThrow
            /\ UNCHANGED <<trig, calls>>
       ELSE IF ~StoreOk
            THEN /\ Call("document_fetcher")
                 /\ Throw("document_fetcher", StoreDown, <<StoreDown>>)
                 /\ UNCHANGED trig
            ELSE /\ calls' = IF env.doc = "extracted"
                             THEN calls \o <<"document_fetcher", "text_extractor">>
                             ELSE Append(calls, "document_fetcher")
                 /\ trig' = IF env.doc = "fetch_none" THEN trig
                            ELSE [trig EXCEPT ![cur].document_ids = Append(@, "doc")]
                 /\ Goto("gate")
                 /\ NoThrow
    /\ ingested' = IF trig'[cur].document_ids # <<>> THEN ingested \cup {cur}
                   ELSE ingested
    /\ UNCHANGED <<pollerVars, utilVars, store, reports, cfg, env, db, cur, inv, report, recorded, runs, outages>>

\* a plausible slip: the bypass result is built as a rejection
HumanBypass_Rejected ==
    [passed |-> FALSE, reason |-> <<"Human trigger bypasses Layer 2 gate">>,
     method |-> "human_bypass", model |-> "n/a"]

HumanBypass ==
    [passed |-> TRUE, reason |-> <<"Human trigger bypasses Layer 2 gate">>,
     method |-> "human_bypass", model |-> "n/a"]

\* the mapping a watchlist filter hands back
FilterResult(answer) ==
    IF answer = "pass"
    THEN [passed |-> TRUE, reason |-> <<"Watched symbol matched">>,
          method |-> "symbol_match", model |-> "none"]
    ELSE [passed |-> FALSE, reason |-> <<"No watchlist match">>,
          method |-> "no_match", model |-> "none"]

\* _run_gate followed by trigger.gate_result = gate_result. The filter's
\* result is read with .get(): a result object without that method (the
\* FilterResult dataclass) raises AttributeError
run_gate ==
    /\ pc = "gate"
    /\ IF store[cur].source = "human"
       THEN /\ trig' = [trig EXCEPT ![cur].gate_result = HumanBypass]
            /\ Goto("gate_status")
            /\ NoThrow
            /\ UNCHANGED calls
       ELSE IF env.filter \in FilterObjects
            THEN /\ Call("watchlist_filter")
                 /\ Throw("watchlist_filter", NoGet, <<NoGet>>)
                 /\ UNCHANGED trig
            ELSE IF env.filter = "reject"
                 THEN /\ Call("watchlist_filter")
                      /\ trig' = [trig EXCEPT ![cur].gate_result = FilterResult("reject")]
                      /\ Goto("gate_status")
                      /\ NoThrow
                 ELSE /\ calls' = calls \o <<"watchlist_filter", "gate_classifier">>
                      /\ trig' = [trig EXCEPT ![cur].gate_result =
                                                 Classification(env.classifier)]
                      /\ Goto("gate_status")
                      /\ NoThrow
    /\ UNCHANGED <<pollerVars, utilVars, ingested, store, reports, cfg, env, db, cur, inv, report, recorded, runs, outages>>

\* a plausible slip: every gate outcome is recorded as gate_passed
GateStatus_AlwaysPassed(g) == GATE_PASSED

\* process_trigger lines 68 and 76: the status the gate outcome is recorded with
GateStatus(g) == IF g.passed THEN GATE_PASSED ELSE FILTERED_OUT

\* process_trigger lines 68-82: record the gate decision, then continue or return
gate_status ==
    /\ pc = "gate_status"
    /\ LET g == trig[cur].gate_result IN
         /\ Record(GateStatus(g), g.reason)
         /\ AfterRecord(IF g.passed THEN Goto("post_gate") ELSE Return("returned"))
    /\ UNCHANGED <<pollerVars, utilVars, ingested, reports, cfg, env, db, cur, trig, inv, report, calls, runs, outages>>

\* _run_post_gate_pipeline lines 97-106
start_analysis ==
    /\ pc = "post_gate"
    /\ IF ~cfg.deep_analyzer
       THEN Return("returned") /\ NoThrow /\ UNCHANGED <<store, recorded>>
       ELSE /\ Record(ANALYZING, <<"Starting deep analysis">>)
            /\ AfterRecord(Goto("analyze"))
    /\ UNCHANGED <<pollerVars, utilVars, ingested, reports, cfg, env, db, cur, trig, inv, report, calls, runs, outages>>

\* the Investigation the analyzer returns
Investigation(answer) ==
    IF answer = "significant"
    THEN [present |-> TRUE, is_significant |-> TRUE, significance |-> "high"]
    ELSE [present |-> TRUE, is_significant |-> FALSE, significance |-> "low"]

\* a plausible slip: the significance flag is not consulted
NextAfterAnalysis_IgnoreSignificance(i) ==
    IF ~cfg.decision_assessor \/ ~cfg.report_generator \/ ~cfg.report_deliverer
    THEN "idle" ELSE "assessing"

\* a plausible slip: the decision stage is skipped
NextAfterAnalysis_SkipAssessment(i) ==
    IF ~i.is_significant THEN "idle"
    ELSE IF ~cfg.decision_assessor \/ ~cfg.report_generator \/ ~cfg.report_deliverer
         THEN "idle" ELSE "generate"

\* _run_post_gate_pipeline lines 127-133: where the run goes after the
\* analysis was recorded; "idle" is the return
NextAfterAnalysis(i) ==
    IF ~i.is_significant THEN "idle"
    ELSE IF ~cfg.decision_assessor \/ ~cfg.report_generator \/ ~cfg.report_deliverer
         THEN "idle" ELSE "assessing"

\* _run_post_gate_pipeline lines 107-133
analyze ==
    /\ pc = "analyze"
    /\ Call("deep_analyzer")
    /\ IF env.analyzer \in Msgs
       THEN /\ Throw("deep_analyzer", env.analyzer,
                     <<"Layer 3 analysis failed: ", env.analyzer>>)
            /\ UNCHANGED <<store, recorded, inv>>
       ELSE LET i == Investigation(env.analyzer) IN
            /\ inv' = i
            /\ Record(ANALYZED, <<"Analysis complete. Significance: ", i.significance>>)
            /\ AfterRecord(IF NextAfterAnalysis(i) = "idle" THEN Return("returned")
                           ELSE Goto(NextAfterAnalysis(i)))
    /\ UNCHANGED <<pollerVars, utilVars, ingested, reports, cfg, env, db, cur, trig, report, runs, outages>>

\* a plausible slip: the assessing status is not recorded
start_assessment_NoRecord ==
    /\ pc = "assessing"
    /\ Goto("assess")
    /\ UNCHANGED <<pollerVars, utilVars, ingested, store, recorded, exc, raised, reports, cfg, env, db, cur,
                   trig, inv, report, calls, runs, outages>>

\* _run_post_gate_pipeline lines 135-140
start_assessment ==
    /\ pc = "assessing"
    /\ Record(ASSESSING, <<"Starting decision assessment">>)
    /\ AfterRecord(Goto("assess"))
    /\ UNCHANGED <<pollerVars, utilVars, ingested, reports, cfg, env, db, cur, trig, inv, report, calls, runs, outages>>

\* _run_post_gate_pipeline lines 141-159
assess ==
    /\ pc = "assess"
    /\ Call("decision_assessor")
    /\ IF env.assessor \in Msgs
       THEN /\ Throw("decision_assessor", env.assessor,
                     <<"Layer 4 assessment failed: ", env.assessor>>)
            /\ UNCHANGED <<store, recorded>>
       ELSE /\ Record(ASSESSED, <<"Assessment complete. Recommendation: ", "buy">>)
            /\ AfterRecord(Goto("generate"))
    /\ UNCHANGED <<pollerVars, utilVars, ingested, reports, cfg, env, db, cur, trig, inv, report, runs, outages>>


\* what report_generator.generate ends with: ReportGenerator.generate saves the
\* report it built, so it raises while the database is down
Generated == IF env.generator \in Msgs THEN env.generator
             ELSE IF StoreOk THEN OK ELSE StoreDown

\* _run_post_gate_pipeline lines 161-169
generate ==
    /\ pc = "generate"
    /\ Call("report_generator")
    /\ IF Generated # OK
       THEN /\ Throw("report_generator", Generated,
                     <<"Layer 5 report generation failed: ", Generated>>)
            /\ UNCHANGED <<report, reports>>
       ELSE /\ report' = [present |-> TRUE, delivery_status |-> "generated",
                          delivered_via |-> <<>>]
            /\ reports' = IF cfg.report_repo
                          THEN [reports EXCEPT ![cur] = "generated"]
                          ELSE reports
            /\ Goto("deliver")
            /\ NoThrow
    /\ UNCHANGED <<pollerVars, utilVars, ingested, store, cfg, env, db, cur, trig, inv, recorded, runs, outages>>

\* what ReportDeliverer.deliver leaves on the report when it returns: a
\* channel delivered, every attempted channel failed, or no channel configured
Delivery(answer) ==
    IF answer = "delivered"
    THEN [delivery_status |-> "delivered", delivered_via |-> <<"slack">>]
    ELSE IF answer = "delivery_failed"
         THEN [delivery_status |-> "delivery_failed", delivered_via |-> <<>>]
         ELSE [delivery_status |-> "generated", delivered_via |-> <<>>]

\* reason = "Report generated" [+ " and delivered via " + channels]
ReportedReason(channels) ==
    IF channels = <<>> THEN <<"Report generated">>
    ELSE <<"Report generated", " and delivered via ">> \o channels

\* _run_post_gate_pipeline lines 171-192 when deliver returns (the deliverer
\* saves the report, a failing save is only logged), and the except branch up
\* to the call of _persist_delivery_failure when it raises
deliver ==
    /\ pc = "deliver"
    /\ Call("report_deliverer")
    /\ IF env.deliverer \in Msgs
       THEN /\ Goto("delivery_failed")
            /\ exc' = <<env.deliverer>>
            /\ raised' = [who |-> "report_deliverer", msg |-> env.deliverer]
            /\ UNCHANGED <<store, recorded, report, reports>>
       ELSE LET d == Delivery(env.deliverer) IN
            /\ report' = [report EXCEPT !.delivery_status = d.delivery_status,
                                        !.delivered_via = d.delivered_via]
            /\ reports' = IF cfg.report_repo /\ StoreOk
                          THEN [reports EXCEPT ![cur] = d.delivery_status]
                          ELSE reports
            /\ Record(REPORTED, ReportedReason(d.delivered_via))
            /\ AfterRecord(Return("returned"))
    /\ UNCHANGED <<pollerVars, utilVars, ingested, cfg, env, db, cur, trig, inv, runs, outages>>

\* the reason recorded when delivery raised
DeliveryFailedReason(error) == <<"Report generated but delivery failed: ">> \o error

\* a plausible slip: the failure is marked on the object and never saved
SaveDeliveryFailure_NotSaved(reps, id) == reps

\* _persist_delivery_failure lines 295-306: the marked report is saved when a
\* report repository is reachable; a failing save is only logged
SaveDeliveryFailure(reps, id) ==
    IF cfg.report_repo /\ StoreOk THEN [reps EXCEPT ![id] = "delivery_failed"]
    ELSE reps

\* _persist_delivery_failure, then lines 175-181: the report is marked on the
\* object, saved when a report repository is reachable (a failing save is only
\* logged), and the trigger is recorded as reported
persist_delivery_failure ==
    /\ pc = "delivery_failed"
    /\ report' = [report EXCEPT !.delivery_status = "delivery_failed",
                                !.delivered_via = <<>>]
    /\ reports' = SaveDeliveryFailure(reports, cur)
    /\ Record(REPORTED, DeliveryFailedReason(exc))
    /\ IF StoreOk THEN Return("returned") /\ exc' = exc /\ raised' = raised
       ELSE Throw("trigger_repo", StoreDown, <<StoreDown>>)
    /\ UNCHANGED <<pollerVars, utilVars, ingested, cfg, env, db, cur, trig, inv, calls, runs, outages>>

\* a plausible slip: the exception's message is left out of the reason
PipelineError_NoMessage(error) == <<"Pipeline error">>

\* the reason recorded by the except branch: f"Pipeline error: {exc}"
PipelineError(error) == <<"Pipeline error: ">> \o error

\* process_trigger lines 83-93: the except branch records the error status and
\* returns the error result; its update_status call is not itself guarded
handle_exception ==
    /\ pc = "handler"
    /\ Record(ERROR, PipelineError(exc))
    /\ Return(IF StoreOk THEN "returned" ELSE "propagated")
    /\ UNCHANGED <<pollerVars, utilVars, ingested, reports, cfg, env, db, cur, trig, inv, report, exc, raised,
                   calls, runs, outages>>

\* ------------------------------------------------ process_pending_triggers
Limits == {1, 2}

\* pending = await self.trigger_repo.get_pending(limit=limit); processed = 0
process_pending_triggers ==
    /\ pc = "idle"
    /\ ~batch.active
    /\ StoreOk
    /\ \E limit \in Limits :
         LET pending == get_pending(store, limit) IN
         /\ runs + Len(pending) <= MaxRuns
         /\ batch' = [active |-> TRUE, pending |-> pending, processed |-> 0,
                      outcome |-> "running", fetched |-> pending,
                      limit |-> limit]
    /\ UNCHANGED <<pollerVars, utilVars, ingested, store, reports, cfg, env, db, pc, cur, trig, inv, report,
                   exc, raised, calls, recorded, result, runs, outages>>

\* for trigger in pending: await self.process_trigger(trigger)
batch_process_trigger ==
    /\ pc = "idle"
    /\ batch.active
    /\ batch.pending # <<>>
    /\ Begin(Head(batch.pending), TRUE)
    /\ batch' = [batch EXCEPT !.pending = Tail(@)]
    /\ UNCHANGED <<pollerVars, utilVars, ingested, store, reports, cfg, env, db, outages>>

\* return processed
batch_return ==
    /\ pc = "idle"
    /\ batch.active
    /\ batch.pending = <<>>
    /\ batch' = [batch EXCEPT !.active = FALSE, !.outcome = "returned"]
    /\ UNCHANGED <<pollerVars, utilVars, ingested, store, reports, cfg, env, db, pc, cur, trig, inv, report,
                   exc, raised, calls, recorded, result, runs, outages>>

\* ------------------------------------------------------- the environment
\* the database becomes unreachable
db_outage ==
    /\ db = "up"
    /\ outages < MaxOutages
    /\ db' = "down"
    /\ outages' = outages + 1
    /\ UNCHANGED <<pollerVars, utilVars, ingested, store, reports, cfg, env, pc, cur, trig, inv, report, exc,
                   raised, calls, recorded, result, runs, batch>>

\* the database is reachable again
db_recovery ==
    /\ db = "down"
    /\ db' = "up"
    /\ UNCHANGED <<pollerVars, utilVars, ingested, store, reports, cfg, env, pc, cur, trig, inv, report, exc,
                   raised, calls, recorded, result, runs, outages, batch>>

\* ------------------------------------------------------------------- Next
Pipeline ==
    \/ \E t \in Triggers : create_human_trigger(t)
    \/ \E t \in Triggers : process_trigger(t)
    \/ process_documents
    \/ run_gate
    \/ gate_status
    \/ start_analysis
    \/ analyze
    \/ start_assessment
    \/ assess
    \/ generate
    \/ deliver
    \/ persist_delivery_failure
    \/ handle_exception
    \/ process_pending_triggers
    \/ batch_process_trigger
    \/ batch_return

Next == Pipeline

\* the pipeline over a database that stays reachable
Spec == Init /\ [][Next]_vars

NextOutage == Pipeline \/ db_outage \/ db_recovery

\* the document fetcher, the gate and the analysis collaborators answer
\* without raising: the failures are those of the persistence layer and of
\* the delivery
InitOutage ==
    /\ Init
    /\ env.doc # "fetch_error"
    /\ env.filter \notin FilterObjects
    /\ env.classifier # "error_fallthrough"
    /\ env.analyzer \notin Msgs
    /\ env.assessor = OK
    /\ env.generator = OK

\* the pipeline over a database that can become unreachable at any moment
SpecOutage == InitOutage /\ [][NextOutage]_vars

NextPoller ==
    \/ poll_begin
    \/ fetch_raises
    \/ create_new_triggers
    \/ source_done
    \/ poll_return
    \/ tick
    \/ save_human_trigger

\* the ingestion poller and the human submissions, over the triggers
\* collection
SpecPoller == InitPoller /\ [][NextPoller]_vars

\* a poller whose store lists recent triggers, over a feed whose rows can
\* list an attachment, with one of the feed's announcements followed
InitAttachments ==
    /\ PipelineQuiet
    /\ UtilQuiet
    /\ poller_cfg \in {c \in PollerConfigs : c.list_recent = "ok" /\ ~c.bse_url}
    /\ feed = "attachments"
    /\ \E row \in AttachmentRows : follow = Following(row)
    /\ PollerStart

SpecAttachments == InitAttachments /\ [][NextPoller]_vars

NextRetry ==
    \/ retry_sync
    \/ retry_async
    \/ retry_in_thread

\* one call of each form of the retry helper with the same arguments
SpecRetry == InitRetry /\ [][NextRetry]_vars

NextBreaker ==
    \/ record_failure
    \/ record_success
    \/ is_open
    \/ time_passes

\* one circuit breaker, its callers and its clock
SpecBreaker == InitBreaker /\ [][NextBreaker]_vars

NextTools ==
    \/ get_snapshot
    \/ search
    \/ search_response
    \/ time_passes

\* a protected tool, its circuit breaker and the clock
SpecTools == InitTools /\ [][NextTools]_vars

NextScheduler ==
    \/ job_due
    \/ job_done

\* the scheduler with the jobs lifespan registers
SpecScheduler == InitScheduler /\ [][NextScheduler]_vars

NextFilter == check

\* the watchlist filter applied to one trigger
SpecFilter == InitFilter /\ [][NextFilter]_vars

NextStore ==
    \/ update_status_called
    \/ update_status_applied

\* concurrent callers of update_status for one trigger
SpecStore == InitStore /\ [][NextStore]_vars

NextGate ==
    \/ classify_retry
    \/ classify_return

\* one call of GateClassifier.classify
SpecGate == InitGate /\ [][NextGate]_vars


\* ================================================================= claims
\* a process_trigger invocation has ended (returned or propagated)
RunEnded == cur # NoTrigger /\ pc = "idle"

History(t) == store[t].status_history

Statuses(h) == [i \in 1..Len(h) |-> h[i].status]

Called(who) == \E i \in 1..Len(calls) : calls[i] = who

Recorded(status) == \E i \in 1..Len(recorded) : recorded[i] = status

\* the statuses of a complete run, in pipeline order
PipelineStatuses ==
    <<GATE_PASSED, ANALYZING, ANALYZED, ASSESSING, ASSESSED, REPORTED>>

\* C1: whatever the collaborators and the trigger store's update_status do,
\* process_trigger returns a result to its caller and never propagates an
\* exception
C1_NeverPropagates == result # "propagated"

\* C2: if the analyzer, the assessor or the report generator raised during
\* process_trigger, then once the invocation has ended the trigger's status is
\* error, error is the last status recorded, and the recorded reason contains
\* the message of the raised exception
C2_StageFailureRecorded ==
    (RunEnded /\ raised.who \in {"deep_analyzer", "decision_assessor", "report_generator"})
        => /\ store[cur].status = ERROR
           /\ recorded # <<>> /\ Last(recorded) = ERROR
           /\ Last(History(cur)).status = ERROR
           /\ Contains(Last(History(cur)).reason, raised.msg)

C2_Witness ==
    /\ RunEnded
    /\ raised.who = "report_generator"
    /\ raised.msg = "boom"
    /\ store[cur].status = ERROR

\* C3: if report generation succeeded and the deliverer raised, then once the
\* invocation has ended the trigger's status is reported and error was never
\* recorded, the reason of the transition notes the delivery failure with the
\* exception's message, the report object is marked delivery_failed and so is
\* the report held by the report repository
C3_DeliveryFailureKeepsReported ==
    (RunEnded /\ raised.who = "report_deliverer")
        => /\ store[cur].status = REPORTED
           /\ Last(recorded) = REPORTED
           /\ ~Recorded(ERROR)
           /\ Last(History(cur)).status = REPORTED
           /\ Last(History(cur)).reason =
                 <<"Report generated but delivery failed: ", raised.msg>>
           /\ report.delivery_status = "delivery_failed"
           /\ (cfg.report_repo => reports[cur] = "delivery_failed")

C3_Witness ==
    /\ RunEnded
    /\ raised.who = "report_deliverer"
    /\ cfg.report_repo
    /\ reports[cur] = "delivery_failed"
    /\ store[cur].status = REPORTED

\* C4: if the analyzer returned an investigation that is not significant, the
\* assessor, the report generator and the deliverer are not invoked in that
\* run, and the run ends with the trigger's status analyzed
C4_NotSignificantStops ==
    (inv.present /\ ~inv.is_significant)
        => /\ ~Called("decision_assessor")
           /\ ~Called("report_generator")
           /\ ~Called("report_deliverer")
           /\ pc = "idle"
           /\ store[cur].status = ANALYZED
           /\ Last(recorded) = ANALYZED

C4_Witness ==
    /\ RunEnded
    /\ inv.present /\ ~inv.is_significant
    /\ cfg.report_deliverer
    /\ store[cur].status = ANALYZED

\* C5: in a run of process_trigger on a human trigger the first status
\* recorded is gate_passed, with the bypass reason, the gate result is the
\* human bypass, and neither the watchlist filter nor the gate classifier is
\* invoked
C5_HumanBypass ==
    (cur # NoTrigger /\ store[cur].source = "human")
        => /\ ~Called("watchlist_filter")
           /\ ~Called("gate_classifier")
           /\ (pc \notin {"documents", "gate"}
                  => /\ trig[cur].gate_result.method = "human_bypass"
                     /\ trig[cur].gate_result.passed)
           /\ (pc \notin {"documents", "gate", "gate_status"}
                  => /\ recorded # <<>>
                     /\ recorded[1] = GATE_PASSED
                     /\ History(cur)[Len(History(cur)) - Len(recorded) + 1] =
                           [status |-> GATE_PASSED,
                            reason |-> <<"Human trigger bypasses Layer 2 gate">>])

C5_Witness ==
    /\ RunEnded
    /\ store[cur].source = "human"
    /\ store[cur].has_url
    /\ Called("document_fetcher")
    /\ recorded = <<GATE_PASSED, ANALYZING, ERROR>>

\* C6: a run on a human trigger whose status history was empty, with the
\* analyzer, assessor, report generator and deliverer configured and each
\* succeeding (analysis significant), records exactly gate_passed, analyzing,
\* analyzed, assessing, assessed, reported, in that order, and ends reported
C6_Precondition ==
    /\ RunEnded
    /\ store[cur].source = "human"
    /\ Len(History(cur)) = Len(recorded)
    /\ cfg.deep_analyzer /\ cfg.decision_assessor
    /\ cfg.report_generator /\ cfg.report_deliverer
    /\ env.analyzer = "significant"
    /\ env.assessor = OK
    /\ env.generator = OK
    /\ env.deliverer \notin Msgs

C6_FullRunSixStatuses ==
    C6_Precondition
        => /\ recorded = PipelineStatuses
           /\ Statuses(History(cur)) = PipelineStatuses
           /\ store[cur].status = REPORTED

C6_Witness ==
    /\ C6_Precondition
    /\ Len(History(cur)) = 6
    /\ calls = <<"deep_analyzer", "decision_assessor", "report_generator",
                 "report_deliverer">>

\* the collaborators in pipeline order
StageOrder ==
    <<"document_fetcher", "text_extractor", "watchlist_filter",
      "gate_classifier", "deep_analyzer", "decision_assessor",
      "report_generator", "report_deliverer">>

StageIndex(who) == CHOOSE i \in 1..Len(StageOrder) : StageOrder[i] = who

\* C7: within one invocation the collaborators are invoked in pipeline order,
\* each at most once, and none before the status of the stage before it was
\* recorded; the statuses recorded are a prefix of the six pipeline statuses,
\* or a proper prefix followed by error, or exactly filtered_out (exactly
\* error is the empty prefix followed by error), so nothing follows error,
\* filtered_out or reported
C7_StagesInOrder ==
    /\ \A i, j \in 1..Len(calls) :
          i < j => StageIndex(calls[i]) < StageIndex(calls[j])
    /\ \/ IsPrefix(recorded, PipelineStatuses)
       \/ recorded = <<FILTERED_OUT>>
       \/ /\ recorded # <<>>
          /\ Last(recorded) = ERROR
          /\ Len(recorded) <= Len(PipelineStatuses)
          /\ IsPrefix(SubSeq(recorded, 1, Len(recorded) - 1), PipelineStatuses)
    /\ (Called("deep_analyzer") => Recorded(ANALYZING))
    /\ (Recorded(ANALYZED) => Called("deep_analyzer"))
    /\ (Called("decision_assessor") => Recorded(ASSESSING))
    /\ (Recorded(ASSESSED) => Called("decision_assessor"))
    /\ (Called("report_generator") => Recorded(ASSESSED))
    /\ (Called("report_deliverer") => Called("report_generator"))
    /\ (Recorded(REPORTED) => Called("report_deliverer"))
    /\ (Recorded(GATE_PASSED) /\ cur # NoTrigger /\ store[cur].source # "human"
           => Called("watchlist_filter") /\ Called("gate_classifier"))
    /\ (Recorded(REPORTED) \/ Recorded(ERROR) \/ Recorded(FILTERED_OUT) => pc = "idle")

C7_Witness ==
    /\ RunEnded
    /\ calls = StageOrder
    /\ recorded = PipelineStatuses

\* C8: after every status transition, made by TriggerEvent.set_status or by
\* the trigger store's update_status, the status of the last entry of the
\* trigger's status_history equals the trigger's current status (a trigger
\* that never made a transition is pending with an empty history)
C8_LastHistoryIsStatus ==
    \A t \in Triggers :
        store[t].present =>
            IF History(t) = <<>> THEN store[t].status = PENDING
            ELSE Last(History(t)).status = store[t].status

C8_Witness ==
    /\ store["t1"].status = ASSESSING
    /\ Len(History("t1")) = 4
    /\ store["t2"].present
    /\ Len(History("t2")) = 1

\* C9: every status mutation appends exactly one entry to status_history and
\* leaves the earlier entries unchanged and in place: in every step a
\* trigger's history keeps its old entries, it grows by at most one entry, it
\* grows by exactly one, carrying the new status, whenever the status
\* changes, and every status the orchestrator records is one appended entry
C9_HistoryAppendOnly ==
    [][\A t \in Triggers :
         /\ IsPrefix(History(t), store'[t].status_history)
         /\ Len(store'[t].status_history) <= Len(History(t)) + 1
         /\ (store'[t].status # store[t].status \/ (~store[t].present /\ store'[t].present)
                => /\ Len(store'[t].status_history) = Len(History(t)) + 1
                   /\ Last(store'[t].status_history).status = store'[t].status)
         /\ (t = cur /\ Len(recorded') = Len(recorded) + 1
                => /\ Len(store'[t].status_history) = Len(History(t)) + 1
                   /\ Last(store'[t].status_history).status = Last(recorded'))]_vars

C9_Witness ==
    /\ runs = 2
    /\ Len(History("t1")) = 12
    /\ store["t1"].status = REPORTED

\* position of a status along the pipeline
Rank(status) ==
    CASE status = PENDING -> 0
      [] status = GATE_PASSED -> 1
      [] status = ANALYZING -> 2
      [] status = ANALYZED -> 3
      [] status = ASSESSING -> 4
      [] status = ASSESSED -> 5
      [] status = REPORTED -> 6
      [] OTHER -> 7

\* C10: over any sequence of orchestrator operations, repeated process_trigger
\* invocations on the same trigger included, a trigger's status never returns
\* to pending once it has left it and never goes from a later pipeline status
\* back to an earlier one
C10_StatusOnlyForward ==
    [][\A t \in Triggers :
         store[t].present =>
            /\ (store[t].status # PENDING => store'[t].status # PENDING)
            /\ (Rank(store[t].status) < 7 /\ Rank(store'[t].status) < 7
                   => Rank(store[t].status) <= Rank(store'[t].status))]_vars

\* the step invokes the document fetcher for the running trigger
FetcherInvoked ==
    /\ pc = "documents"
    /\ Len(calls') > Len(calls)
    /\ calls'[Len(calls) + 1] = "document_fetcher"

\* C11: once document_ids has been populated for a trigger, no later
\* process_trigger invocation for that trigger, on the same object or on the
\* trigger as read again from the store, invokes the document fetcher
C11_NoRefetch ==
    [][\A t \in Triggers : (t \in ingested /\ cur = t) => ~FetcherInvoked]_vars

\* the watchlist filter's answer is a rejection
FilterRejects == env.filter \in {"reject", "FilterResult_rejected"}

\* C12: for a non-human trigger the gate classifier is invoked only after the
\* watchlist filter returned a passing result; when the filter rejects, the
\* classifier is not invoked and the run ends with the status filtered_out
C12_ClassifierOnlyAfterFilterPass ==
    (cur # NoTrigger /\ store[cur].source # "human")
        => /\ (Called("gate_classifier")
                  => /\ calls[Len(calls) - 1] = "watchlist_filter"
                     /\ ~FilterRejects)
           /\ (RunEnded /\ FilterRejects
                  => /\ Called("watchlist_filter")
                     /\ ~Called("gate_classifier")
                     /\ store[cur].status = FILTERED_OUT)

\* _run_gate has returned in the current run and its outcome was attended to
GateDetermined ==
    /\ cur # NoTrigger
    /\ \/ pc \in {"post_gate", "analyze", "assessing", "assess", "generate",
                  "deliver", "delivery_failed"}
       \/ /\ pc \in {"idle", "handler"}
          /\ raised.who \notin {"document_fetcher", "watchlist_filter"}

\* the first transition the current run recorded
FirstTransition == History(cur)[Len(History(cur)) - Len(recorded) + 1]

\* C13: after the gate is determined the trigger is transitioned to
\* gate_passed exactly when the gate outcome is passed and to filtered_out
\* otherwise, and the reason recorded with that transition is the reason text
\* of the gate result
C13_GateTransition ==
    GateDetermined
        => /\ recorded # <<>>
           /\ recorded[1] = FirstTransition.status
           /\ (trig[cur].gate_result.passed <=> FirstTransition.status = GATE_PASSED)
           /\ (~trig[cur].gate_result.passed <=> FirstTransition.status = FILTERED_OUT)
           /\ FirstTransition.reason = trig[cur].gate_result.reason
           /\ (~trig[cur].gate_result.passed => recorded = <<FILTERED_OUT>>)

C13_Witness ==
    /\ RunEnded
    /\ store[cur].source = "nse_rss"
    /\ trig[cur].gate_result.method = "no_match"
    /\ store[cur].status = FILTERED_OUT
    /\ Last(History(cur)).reason = <<"No watchlist match">>

\* C14: after process_trigger has determined the gate outcome of a trigger,
\* the record the trigger store holds for that trigger id (what get returns)
\* carries that gate_result
C14_GateResultPersisted ==
    GateDetermined => store[cur].gate_result = trig[cur].gate_result

\* a run that passed the gate and in which no collaborator raised and no
\* analysis was found insignificant: it ends only where the configuration
\* ends it
StoppedByConfiguration ==
    /\ RunEnded
    /\ Recorded(GATE_PASSED)
    /\ raised.who = "none"
    /\ (inv.present => inv.is_significant)
    /\ ~(cfg.deep_analyzer /\ cfg.decision_assessor /\ cfg.report_generator
           /\ cfg.report_deliverer)

\* C15: if the gate passes and the collaborator of some later stage is not
\* configured, process_trigger stops after the last stage whose collaborator
\* is present, records no error and invokes no collaborator of a later stage
C15_StopsAfterLastConfiguredStage ==
    StoppedByConfiguration
        => /\ ~Recorded(ERROR)
           /\ (~cfg.deep_analyzer
                  => /\ recorded = <<GATE_PASSED>>
                     /\ ~Called("deep_analyzer") /\ ~Called("decision_assessor")
                     /\ ~Called("report_generator") /\ ~Called("report_deliverer"))
           /\ (cfg.deep_analyzer /\ ~cfg.decision_assessor
                  => /\ recorded = <<GATE_PASSED, ANALYZING, ANALYZED>>
                     /\ ~Called("decision_assessor")
                     /\ ~Called("report_generator") /\ ~Called("report_deliverer"))
           /\ (cfg.deep_analyzer /\ cfg.decision_assessor /\ ~cfg.report_generator
                  => /\ recorded = <<GATE_PASSED, ANALYZING, ANALYZED, ASSESSING, ASSESSED>>
                     /\ Called("decision_assessor")
                     /\ ~Called("report_generator") /\ ~Called("report_deliverer"))

\* the triggers of the running or last batch that process_trigger was given
Attempted == SubSeq(batch.fetched, 1, Len(batch.fetched) - Len(batch.pending))

\* C16: in process_pending_triggers a trigger whose processing fails neither
\* prevents the remaining triggers of the batch from being processed nor
\* changes their recorded statuses, and the batch call returns normally: the
\* call never ends with an exception, it returns only after every fetched
\* trigger was given to process_trigger, and a step of a run changes no
\* stored trigger other than the one being processed
C16_BatchContainsFailures ==
    /\ [](batch.outcome # "propagated")
    /\ [](batch.outcome = "returned"
             => batch.pending = <<>> /\ batch.processed = Len(batch.fetched))
    /\ [][pc # "idle" => \A t \in Triggers \ {cur} : store'[t] = store[t]]_vars

\* the elements of a sequence
Range(s) == {s[i] : i \in 1..Len(s)}

\* C17: process_pending_triggers(limit) processes at most limit triggers, all
\* pending when fetched, oldest created first, one after another, and returns
\* the number of triggers it attempted. The fetch takes min(limit, number of
\* pending triggers) distinct pending triggers in created_at order, none
\* newer than a pending trigger left behind; while the batch runs the trigger
\* in process_trigger is the last one taken from the front of the fetched
\* list; the call returns when the list is exhausted, with its length
C17_BatchOldestFirstUpToLimit ==
    /\ [][(~batch.active /\ batch'.active)
            => LET f == batch'.fetched
                   pend == {t \in Triggers : store[t].present /\ store[t].status = PENDING}
               IN /\ Len(f) <= batch'.limit
                  /\ Len(f) = IF Cardinality(pend) < batch'.limit
                              THEN Cardinality(pend) ELSE batch'.limit
                  /\ Range(f) \subseteq pend
                  /\ Cardinality(Range(f)) = Len(f)
                  /\ \A i, j \in 1..Len(f) :
                        i < j => store[f[i]].created_at <= store[f[j]].created_at
                  /\ \A t \in pend \ Range(f), i \in 1..Len(f) :
                        store[f[i]].created_at <= store[t].created_at
                  /\ batch'.pending = f /\ batch'.processed = 0]_vars
    /\ [](batch.active
             => /\ IsPrefix(Attempted, batch.fetched)
                /\ batch.fetched = Attempted \o batch.pending
                /\ IF pc = "idle" THEN batch.processed = Len(Attempted)
                   ELSE /\ Attempted # <<>>
                        /\ cur = Last(Attempted)
                        /\ batch.processed = Len(Attempted) - 1)
    /\ [](batch.outcome = "returned"
             => /\ batch.pending = <<>>
                /\ batch.processed = Len(batch.fetched)
                /\ batch.processed <= batch.limit)

C17_Witness ==
    /\ batch.outcome = "returned"
    /\ batch.limit = 1
    /\ batch.fetched = <<"t2">>
    /\ batch.processed = 1
    /\ store["t1"].present
    /\ store["t1"].status = PENDING
    /\ store["t2"].status # PENDING

\* the last process_trigger run was on t and was cut short by an exception
\* after t had left pending and before it reached a status that ends a run
Interrupted(t) ==
    /\ store[t].present
    /\ pc = "idle"
    /\ cur = t
    /\ result = "propagated"
    /\ recorded # <<>>
    /\ store[t].status \in {GATE_PASSED, ANALYZING, ASSESSING, ASSESSED}

\* C18: a trigger whose processing was interrupted after it left pending
\* (persisted status gate_passed, analyzing, assessing or assessed) is picked
\* up again by a later run of the batch driver: whenever the batch driver
\* fetches its work with a limit that leaves room for every trigger, each
\* interrupted trigger is among the triggers it fetched
C18_InterruptedIsPickedUp ==
    [][(~batch.active /\ batch'.active /\ batch'.limit >= Cardinality(Triggers))
          => \A t \in Triggers : Interrupted(t) => t \in Range(batch'.fetched)]_vars

\* the transition a direct human submission is stored with
SubmissionTransition ==
    [status |-> GATE_PASSED, reason |-> <<"Human trigger bypasses Layer 2 gate">>]

SeenWithinLookback(u) ==
    \E i \in 1..Len(collection) :
       /\ collection[i].by = "poller"
       /\ canonicalize_url(collection[i].source_url) = u
       /\ collection[i].created_at >= now - poller_cfg.dedup_lookback_days

\* the step saves a trigger of the poller with this source URL
PollerSaves(u) ==
    /\ Len(collection') = Len(collection) + 1
    /\ Last(collection').by = "poller"
    /\ Last(collection').source_url = u

\* C20: the poller creates no trigger from an announcement whose canonical
\* source URL is the canonical source URL of a trigger it has seen within the
\* lookback window
C20_NoTriggerForSeenUrl ==
    [][\A u \in {canonicalize_url(x) : x \in FeedUrls} :
          SeenWithinLookback(u) => ~PollerSaves(u)]_vars

\* a query key that canonicalisation treats as tracking: utm_* or block-listed
IsTrackingKey(key) ==
    HasTrackingPrefix(Lower(key)) \/ Lower(key) \in TRACKING_QUERY_KEYS

\* the query pairs that are no tracking parameters, in their order
RECURSIVE NonTracking(_)
NonTracking(pairs) ==
    IF pairs = <<>> THEN <<>>
    ELSE IF IsTrackingKey(Head(pairs)[1]) THEN NonTracking(Tail(pairs))
    ELSE <<Head(pairs)>> \o NonTracking(Tail(pairs))

\* two URLs that differ only by tracking query parameters
DifferOnlyByTracking(u, v) ==
    /\ u # v
    /\ [u EXCEPT !.query = <<>>] = [v EXCEPT !.query = <<>>]
    /\ NonTracking(u.query) = NonTracking(v.query)

\* the poller saved a trigger with this source URL at the present clock
\* reading: in this cycle, or in one since which the cache has not aged
SavedNow(u) ==
    \E i \in 1..Len(collection) :
       /\ collection[i].by = "poller"
       /\ collection[i].created_at = now
       /\ collection[i].source_url = u

\* announcements that differ only by tracking query parameters of their URLs
\* have equal dedup keys
TrackingVariantsHaveEqualKeys ==
    \A u \in RawUrls, v \in RawUrls, s \in {"nse_rss", "bse_rss"}, c \in Contents :
       DifferOnlyByTracking(u, v) =>
          announcement_dedup_keys(normalize_row(s, PlainRow(u, c)))
            = announcement_dedup_keys(normalize_row(s, PlainRow(v, c)))

\* C21: two announcements that differ only by tracking query parameters of
\* their URLs have equal dedup keys, and when both appear the second one is
\* skipped as a duplicate: the poller saves one trigger for them, not two
C21_TrackingVariantsDeduplicated ==
    /\ []TrackingVariantsHaveEqualKeys
    /\ [][\A u \in {canonicalize_url(x) : x \in FeedUrls} :
             SavedNow(u) => ~PollerSaves(u)]_vars

\* the loop has just skipped the announcement whose link carries a tracking
\* parameter, because the trigger of the link without it was saved in the same
\* cycle, and that trigger is the only one with this URL
C21_Witness ==
    /\ last_row.outcome = "duplicate"
    /\ last_row.url.query # <<>>
    /\ \E x \in FeedUrls : DifferOnlyByTracking(x, last_row.url)
    /\ \E i \in 1..Len(collection) :
          /\ collection[i].by = "poller"
          /\ collection[i].created_at = now
          /\ DifferOnlyByTracking(collection[i].source_url, last_row.url)
          /\ \A j \in 1..Len(collection) :
                canonicalize_url(collection[j].source_url) = collection[i].source_url
                   => j = i

\* the dedup keys of the announcement a trigger of the poller was made from
KeysOfTrigger(d) ==
    announcement_dedup_keys(
       normalize_row(d.source, PlainRow(d.source_url, d.content)))

\* the triggers the poller created since its cache was last refreshed (all of
\* them while it never was)
CreatedSinceRefresh ==
    {i \in 1..Len(collection) :
        /\ collection[i].by = "poller"
        /\ collection[i].created_at >= dedup_cache_seeded_at}

\* C22: an announcement is saved as a trigger only if none of its dedup keys
\* is in the known-key set, once it is saved all its keys are in the set, and
\* no two triggers the poller created since the last cache refresh have
\* intersecting key sets
C22_KnownKeysDiscipline ==
    /\ [][Len(collection') = Len(collection) + 1 /\ Last(collection').by = "poller"
            => /\ KeysOfTrigger(Last(collection')) \cap known_dedup_keys = {}
               /\ KeysOfTrigger(Last(collection')) \subseteq known_dedup_keys']_vars
    /\ [](\A i \in CreatedSinceRefresh, j \in CreatedSinceRefresh :
             i # j => KeysOfTrigger(collection[i])
                         \cap KeysOfTrigger(collection[j]) = {})

\* the loop has just saved a second trigger since the last refresh of the cache
C22_Witness ==
    /\ last_row.outcome = "saved"
    /\ Cardinality(CreatedSinceRefresh) >= 2
    /\ dedup_cache_seeded_at # NotSeeded

\* the step is the failure of a source before any of its rows was handled
SourceFails ==
    /\ poll_pc \in {"nse_rss", "bse_rss"}
    /\ row_no = 0
    /\ poll_pc \notin failed_sources
    /\ poll_pc \in failed_sources'

\* C23: the failure of one source in a poll cycle contributes no item and does
\* not keep the other configured source from having its turn: after a failing
\* NSE fetch the BSE feed, when configured, is fetched next, and after the last
\* source poll returns
C23_SourceFailureIsolated ==
    /\ [][SourceFails =>
            /\ poll_pc' = IF poll_pc = "nse_rss" /\ poller_cfg.bse_url
                          THEN "bse_rss" ELSE "return"
            /\ collection' = collection
            /\ created_triggers' = created_triggers]_vars
    /\ [](failed_sources # {} => poll_pc \in {"bse_rss", "return"})

\* the NSE source failed, the BSE source was processed after it and poll is
\* about to return the BSE trigger alone
C23_Witness ==
    /\ poll_pc = "return"
    /\ failed_sources = {"nse_rss"}
    /\ poller_cfg.bse_url
    /\ Len(created_triggers) = 1
    /\ \E i \in 1..Len(collection) :
          collection[i].source = "bse_rss" /\ collection[i].created_at = now
    /\ \A i \in 1..Len(collection) : collection[i].source # "nse_rss"

\* the step ends the turn of a source, normally or in the except branch
SourceTurnEnds ==
    /\ poll_pc \in {"nse_rss", "bse_rss"}
    /\ poll_pc' # poll_pc

\* C24: the list poll returns holds every trigger saved in the cycle: when the
\* turn of a source ends, also by an exception, the triggers saved in that
\* turn are in created_triggers
C24_ReturnsAllCreated ==
    [][SourceTurnEnds => created_triggers' = created_triggers \o created]_vars

\* the step is a turn of the loop of _create_new_triggers
HandlesRow ==
    /\ poll_pc \in {"nse_rss", "bse_rss"}
    /\ last_row'.outcome # "none"
    /\ \/ row_no' = row_no + 1
       \/ poll_pc \in failed_sources' /\ poll_pc \notin failed_sources

\* C25: an announcement that is no duplicate, once saved, is exactly one new
\* trigger, pending, of normal priority, with the canonical link of its row and
\* the source of the feed it came from, and it is added to the cycle's list; a
\* duplicate adds nothing
C25_OneTriggerPerNewAnnouncement ==
    [][HandlesRow =>
          IF last_row'.outcome = "saved"
          THEN /\ Len(collection') = Len(collection) + 1
               /\ SubSeq(collection', 1, Len(collection)) = collection
               /\ Last(collection').source = poll_pc
               /\ Last(collection').source_url = canonicalize_url(last_row'.url)
               /\ Last(collection').status = PENDING
               /\ Last(collection').priority = "normal"
               /\ Last(collection').by = "poller"
               /\ created' = Append(created, Last(collection').source_url)
          ELSE collection' = collection /\ Len(created') <= Len(created)]_vars

\* one new NSE announcement and one new BSE announcement in the same cycle:
\* poll is about to return two triggers, the first of the NSE feed and the
\* second of the BSE feed
C25_Witness ==
    /\ poll_pc = "return"
    /\ polls = 1
    /\ failed_sources = {}
    /\ Len(created_triggers) = 2
    /\ Len(collection) = 2
    /\ collection[1].source = "nse_rss" /\ collection[1].status = PENDING
    /\ collection[2].source = "bse_rss" /\ collection[2].status = PENDING
    /\ created_triggers = <<collection[1].source_url, collection[2].source_url>>

\* a trigger with exactly this source URL is in the store
SourceUrlStored(u) == \E i \in 1..Len(collection) : collection[i].source_url = u

\* some key of an announcement with this link is in the known-key set
KeyInCache(u) ==
    \E c \in Contents :
       announcement_dedup_keys(normalize_row(poll_pc, PlainRow(u, c)))
          \cap known_dedup_keys # {}

\* C26: without a usable recent listing the poller checks each announcement
\* against the store by its canonical source URL only: an announcement is
\* skipped exactly when a key of it is in the known-key set or, in fallback
\* mode, a trigger with its canonical source URL is stored; with a usable
\* listing the store is not asked
C26_FallbackChecksSourceUrlOnly ==
    [][HandlesRow =>
          LET u == canonicalize_url(last_row'.url)
          IN /\ (~supports_recent_listing /\ SourceUrlStored(u))
                   => last_row'.outcome = "duplicate"
             /\ last_row'.outcome = "duplicate"
                   => \/ KeyInCache(last_row'.url)
                      \/ ~supports_recent_listing /\ SourceUrlStored(u)]_vars

\* the call of this form of the helper has ended
RetryEnded(f) == retry_runs[f].result # NoResult

\* the invocation at which the helper must stop: the first one that returns a
\* value or raises a non-transient exception, and the attempts-th otherwise
StopIndex ==
    CHOOSE k \in 1..retry_args.attempts :
       /\ \/ k = retry_args.attempts
          \/ retry_args.outcomes[k] \notin Transient
       /\ \A j \in 1..(k - 1) : retry_args.outcomes[j] \in Transient

\* C27: for attempts N >= 1 every form of the retry helper invokes the
\* operation until the first success, the first non-transient failure or N
\* invocations, whichever comes first, and ends with the outcome of that
\* invocation: the value returned, or the exception propagated
C27_RetryStopsAtFirstDecisiveOutcome ==
    \A f \in Forms :
       retry_args.attempts >= 1 =>
          /\ Len(retry_runs[f].calls) <= StopIndex
          /\ RetryEnded(f) =>
                /\ Len(retry_runs[f].calls) = StopIndex
                /\ retry_runs[f].result =
                      IF retry_args.outcomes[StopIndex] \in Values
                      THEN Returned(retry_args.outcomes[StopIndex])
                      ELSE Raised(retry_args.outcomes[StopIndex])

\* two transient failures, then success, with attempts = 3: the value after
\* exactly three invocations
C27_Witness ==
    /\ retry_args.attempts = 3
    /\ retry_args.outcomes = <<"TimeoutError_a", "TimeoutError_b", "value_b">>
    /\ retry_runs["retry_sync"].result = Returned("value_b")
    /\ Len(retry_runs["retry_sync"].calls) = 3

\* C28: the wait between attempt k and attempt k+1 of the retry helper is
\* base_delay * 2^(k-1), and no wait follows the invocation that ended the
\* call (a success, a non-transient failure or the final attempt)
C28_ExponentialBackoff ==
    \A f \in Forms :
       retry_args.attempts >= 1 =>
          /\ \A k \in 1..Len(retry_runs[f].waits) :
                retry_runs[f].waits[k].seconds =
                   retry_args.base_delay_seconds * 2 ^ (k - 1)
          /\ Len(retry_runs[f].waits) =
                IF RetryEnded(f) THEN Len(retry_runs[f].calls) - 1
                ELSE Len(retry_runs[f].calls)

\* three transient failures with attempts = 3 and a base delay of 2: the waits
\* were 2 and 4, and none followed the final attempt
C28_Witness ==
    /\ retry_args.attempts = 3
    /\ retry_args.base_delay_seconds = 2
    /\ retry_runs["retry_async"].result = Raised("TimeoutError_b")
    /\ Len(retry_runs["retry_async"].calls) = 3
    /\ retry_runs["retry_async"].waits =
          <<[seconds |-> 2, blocking |-> FALSE], [seconds |-> 4, blocking |-> FALSE]>>

\* the delays a call has waited
Delays(f) == [k \in 1..Len(retry_runs[f].waits) |-> retry_runs[f].waits[k].seconds]

\* C29: for the same attempts, base delay, predicate and outcomes of the
\* operation, retry_sync, retry_async and retry_in_thread make the same
\* number of invocations, wait the same delays and end with the same value or
\* the same propagated failure
C29_FormsEquivalent ==
    \A f \in Forms, g \in Forms :
       RetryEnded(f) /\ RetryEnded(g) =>
          /\ Len(retry_runs[f].calls) = Len(retry_runs[g].calls)
          /\ Delays(f) = Delays(g)
          /\ retry_runs[f].result = retry_runs[g].result

\* the three forms have ended after a retry: the operation of retry_in_thread
\* ran in a worker thread, retry_sync blocked its caller while waiting and the
\* asynchronous forms did not
C29_Witness ==
    /\ \A f \in Forms : RetryEnded(f) /\ Len(retry_runs[f].calls) = 2
    /\ retry_args.attempts = 2
    /\ retry_args.base_delay_seconds = 1
    /\ retry_runs["retry_in_thread"].calls = <<"worker", "worker">>
    /\ retry_runs["retry_sync"].waits = <<[seconds |-> 1, blocking |-> TRUE]>>
    /\ retry_runs["retry_async"].waits = <<[seconds |-> 1, blocking |-> FALSE]>>
    /\ retry_runs["retry_in_thread"].result = Raised("TimeoutError_b")

\* C30: once failure_threshold record_failure calls in a row have been
\* recorded, is_open answers True, and it goes on answering True while the
\* clock is before the stored open-until time, which is recovery_seconds
\* after the last recorded failure; a call of is_open made when
\* recovery_seconds have elapsed since the last recorded failure answers
\* False, with no record_success in between.
ThresholdReached == breaker_calls.failures >= breaker.failure_threshold

RecoveryElapsed ==
    /\ breaker_calls.last_failure_at.some
    /\ breaker_clock >= breaker_calls.last_failure_at.value + breaker.recovery_seconds

C30_OpensAtThresholdAndRecovers ==
    /\ [](ThresholdReached =>
            breaker.opened_until = Time(breaker_calls.last_failure_at.value
                                        + breaker.recovery_seconds))
    /\ [][is_open =>
            /\ (ThresholdReached /\ ~RecoveryElapsed) => breaker_calls'.answer = "open"
            /\ (breaker.opened_until.some /\ breaker_clock < breaker.opened_until.value)
                   => breaker_calls'.answer = "open"
            /\ RecoveryElapsed => breaker_calls'.answer = "closed"]_vars

\* is_open has answered True after the threshold was reached and, with no
\* record_success since, has answered False once the recovery time elapsed
C30_Witness ==
    /\ breaker.failure_threshold > 1
    /\ breaker_calls.was_open
    /\ breaker_calls.answer = "closed"
    /\ RecoveryElapsed

\* C31: record_success sets the consecutive-failure counter to zero and
\* forgets the stored open-until time in any state; the is_open that follows
\* answers False whatever the clock says, and the breaker is not open again
\* before failure_threshold failures have been recorded since that
\* record_success.
FewFailuresSinceSuccess ==
    /\ breaker_calls.succeeded
    /\ breaker_calls.since_success < breaker.failure_threshold

C31_RecordSuccessClosesImmediately ==
    /\ [](FewFailuresSinceSuccess =>
            /\ breaker.opened_until = NoTime
            /\ breaker.consecutive_failures = breaker_calls.since_success)
    /\ [][(is_open /\ FewFailuresSinceSuccess) => breaker_calls'.answer = "closed"]_vars

\* record_success was called on an open breaker, and the is_open after it has
\* answered False while the clock is still before the time that was stored
C31_Witness ==
    /\ breaker_calls.closed_by = "record_success"
    /\ breaker_calls.since_success = 0
    /\ breaker_calls.answer = "closed"
    /\ breaker_calls.last_failure_at.some
    /\ breaker_clock < breaker_calls.last_failure_at.value + breaker.recovery_seconds

\* C40: in every reachable state of a CircuitBreaker the counter is not
\* negative and an open-until time is stored exactly when the counter is at
\* least failure_threshold, so the breaker is never open with fewer than
\* failure_threshold failures recorded since the last reset.
C40_OpenIffThresholdReached ==
    /\ breaker.consecutive_failures >= 0
    /\ breaker.opened_until.some <=>
           breaker.consecutive_failures >= breaker.failure_threshold
    /\ breaker.opened_until.some => breaker_calls.failures >= breaker.failure_threshold

\* the breaker is open again after a recovery and a record_success
C40_Witness ==
    /\ breaker.opened_until.some
    /\ breaker.failure_threshold > 1
    /\ breaker_calls.closed_by = "recovery"
    /\ breaker_calls.succeeded

\* C32: a call of a protected tool that finds its breaker open does not make
\* the protected call: get_snapshot builds no ticker and returns the snapshot
\* labelled market_data_circuit_open, search issues no HTTP request and
\* returns the empty list, and the breaker is left as it was, with neither a
\* success nor a failure recorded.
C32_OpenBreakerSkipsProtectedCall ==
    [][((get_snapshot \/ search) /\ IsOpen(breaker, breaker_clock)) =>
          /\ ~tool_last'.attempted
          /\ tool_last'.recorded = "none"
          /\ tool_last'.returned = IF tool.name = "market_data"
                                   THEN "market_data_circuit_open" ELSE "empty"
          /\ tool_requests' = tool_requests
          /\ breaker' = breaker]_vars

\* get_snapshot has found the breaker open and returned the labelled snapshot
C32_Witness ==
    /\ tool_last.found_open
    /\ tool_last.returned = "market_data_circuit_open"
    /\ breaker.opened_until.some

\* C33: no two invocations of the poller job run at the same time, and no
\* two of the pending-trigger batch job: a run time that comes due while the
\* previous invocation of the same job is running is dropped, and nothing is
\* started for it when that invocation ends.
DueWhileRunning(id) ==
    /\ sched'.job[id].fired > sched.job[id].fired
    /\ sched.job[id].running > 0

InstanceEnds(id) == sched'.job[id].running < sched.job[id].running

C33_NoOverlappingInvocations ==
    /\ [](\A id \in Jobs : sched.job[id].running <= 1 /\ ~sched.job[id].overlapped)
    /\ [][\A id \in Jobs :
            /\ DueWhileRunning(id) =>
                  /\ sched'.job[id].started = sched.job[id].started
                  /\ sched'.job[id].running = sched.job[id].running
                  /\ sched'.job[id].dropped > sched.job[id].dropped
            /\ InstanceEnds(id) => sched'.job[id].started = sched.job[id].started]_vars

\* both jobs have had a run time dropped while an invocation of them ran, and
\* the poller's invocation has ended since
C33_Witness ==
    /\ \A id \in Jobs : sched.job[id].started > 0 /\ sched.job[id].dropped > 0
    /\ sched.job["rss_poller"].running = 0
    /\ sched.job["trigger_processor"].running = 1

\* C36: the watchlist filter answers with the first of four steps that
\* matches (the symbol is watched; a watched name or alias occurs in the
\* company name; the sector is watched and a keyword occurs in the content; a
\* watched name, alias or symbol occurs in the content), passing with that
\* step's method, and rejects only when none of the four matches.
StepMatches(trigger, step) ==
    CASE step = 1 -> StripUpper(trigger.company_symbol) \in WatchedSymbols
      [] step = 2 -> \E name \in WatchedNames :
                        Within(name, StripLower(trigger.company_name))
      [] step = 3 -> /\ StripLower(trigger.sector) \in WatchedSectors
                     /\ \E keyword \in WatchedKeywords : Occurs(keyword, trigger.content)
      [] step = 4 -> \E needle \in WatchedNames \cup {"inoxwind"} :
                        Occurs(needle, trigger.content)

StepMethod(step) ==
    CASE step = 1 -> "symbol_match"
      [] step = 2 -> "name_match"
      [] step = 3 -> "keyword_match"
      [] step = 4 -> "content_scan"

C36_FirstMatchingStepDecides ==
    filter_call.result # NoAnswer =>
        LET matching == {step \in 1..4 : StepMatches(filter_call.trigger, step)}
        IN /\ filter_call.result.passed <=> matching # {}
           /\ \A step \in matching :
                 (\A earlier \in matching : step <= earlier)
                     => filter_call.result.method = StepMethod(step)

\* C34: when update_status is invoked concurrently for the same trigger no
\* update is lost: the history holds one entry for every invocation that has
\* been applied, and the current status is the status of the last entry.
AppliedCalls == {c \in Callers : upd_calls[c].state = "done"}

UpdateHistory == upd_store["t1"].status_history

C34_NoLostUpdate ==
    /\ Len(UpdateHistory) = Cardinality(AppliedCalls)
    /\ \A a \in UpdateArgs :
          Cardinality({c \in AppliedCalls : upd_calls[c].status = a.status})
              = Cardinality({i \in 1..Len(UpdateHistory) : UpdateHistory[i].status = a.status})
    /\ UpdateHistory # <<>> => upd_store["t1"].status = Last(UpdateHistory).status

\* every caller's update has been applied, the calls overlapped, and the
\* callers did not all pass the same status
C34_Witness ==
    /\ AppliedCalls = Callers
    /\ \A c \in Callers : Len(upd_calls[c].seen[1]["t1"].status_history) = 0
    /\ \E c \in Callers : upd_calls[c].status # upd_store["t1"].status

\* C35: classify ends with a mapping whatever its module does: it invokes the
\* module until the first prediction, the first non-transient failure or the
\* third invocation; a prediction gives llm_classification with the module's
\* verdict, and a failure that is left gives a passing error_fallthrough,
\* which the pipeline records as gate_passed.
GateStopIndex ==
    CHOOSE k \in 1..ClassifyAttempts :
       /\ \/ k = ClassifyAttempts
          \/ gate_call.outcomes[k] \notin Transient
       /\ \A j \in 1..(k - 1) : gate_call.outcomes[j] \in Transient

C35_ClassifierFailsOpen ==
    /\ Len(gate_call.run.calls) <= ClassifyAttempts
    /\ gate_call.result # NoGate =>
          LET last == gate_call.outcomes[GateStopIndex]
          IN /\ Len(gate_call.run.calls) = GateStopIndex
             /\ last \in Values =>
                   /\ gate_call.result.method = "llm_classification"
                   /\ gate_call.result.passed = is_worth_investigating(last)
             /\ last \notin Values =>
                   /\ gate_call.result.method = "error_fallthrough"
                   /\ gate_call.result.passed
                   /\ GateStatus(gate_call.result) = GATE_PASSED

\* the module timed out three times and classify passed the trigger
C35_Witness ==
    /\ gate_call.result.method = "error_fallthrough"
    /\ Len(gate_call.run.calls) = ClassifyAttempts
    /\ Len(gate_call.run.waits) = ClassifyAttempts - 1

\* a trigger stored by the human-trigger endpoint that no run has touched
SubmittedAndWaiting(t) ==
    /\ store[t].present
    /\ store[t].source = "human"
    /\ store[t].priority = "high"
    /\ Len(History(t)) = 1

\* C37: every trigger submitted through the human-trigger endpoint is run
\* through process_trigger by the periodic batch driver: whenever the batch
\* driver fetches its work with a limit that leaves room for every trigger,
\* each submitted trigger that no run has processed yet is among the triggers
\* it fetched.
C37_SubmittedIsFetchedByBatch ==
    [][(~batch.active /\ batch'.active /\ batch'.limit >= Cardinality(Triggers))
          => \A t \in Triggers : SubmittedAndWaiting(t) => t \in Range(batch'.fetched)]_vars

\* the batch driver begins process_trigger on t
BatchBegins(t) == batch.active /\ pc = "idle" /\ pc' = "documents" /\ cur' = t

\* C38: when process_trigger has returned for a trigger, the stored status of
\* that trigger is not pending; a stored status that is not pending never
\* becomes pending again, and the batch driver begins process_trigger only on
\* triggers whose stored status is pending, so no later batch processes a
\* trigger for which process_trigger has returned.
C38_ReturnedTriggerLeavesPending ==
    /\ []((RunEnded /\ result = "returned") => store[cur].status # PENDING)
    /\ [][\A t \in Triggers :
            /\ (store[t].present /\ store[t].status # PENDING)
                   => store'[t].status # PENDING
            /\ BatchBegins(t) => store[t].status = PENDING]_vars

\* a second batch has fetched the newer trigger alone, after a first batch
\* ran process_trigger on the older one to its return
C38_Witness ==
    /\ batch.active
    /\ batch.fetched = <<"t1">>
    /\ store["t2"].present
    /\ store["t2"].status # PENDING
    /\ cur = "t2"
    /\ result = "returned"
    /\ runs = 1

\* the document is among what list_recent returns now: inside the lookback
\* window and among the dedup_recent_limit newest
InListing(i) ==
    /\ collection[i].created_at >= now - poller_cfg.dedup_lookback_days
    /\ Len(collection) - i < poller_cfg.dedup_recent_limit

\* C39: duplicate recognition is stable across cache refreshes: when the loop
\* handles, in a later poll cycle, an announcement that an earlier handling
\* recognised as a duplicate, and a trigger it was matched against is still
\* inside the lookback window and the recent limit, the announcement is
\* recognised as a duplicate again (the poller working from its cache).
C39_DuplicateRecognitionIsStable ==
    [][(/\ follow.matched # {}
        /\ follow'.cycle > follow.cycle
        /\ supports_recent_listing
        /\ \E i \in follow.matched : InListing(i))
          => follow'.outcome = "duplicate"]_vars

====
